---- MODULE Spec2Model ----
(***************************************************************************)
(* Model of the daily-report entry form (src/components/EntryForm.tsx),    *)
(* its Firestore-backed StorageService, the legacy local-storage           *)
(* StorageService (src/unnamed/part_005) and the App callbacks that        *)
(* connect them (src/App.tsx).                                             *)
(*                                                                         *)
(* Strings that the code takes apart (activity IDs, resource codes) are    *)
(* sequences of one-character strings, so that the regular expressions,    *)
(* parseInt, padStart and toUpperCase are computed and not assumed.        *)
(***************************************************************************)
EXTENDS Integers, Sequences, FiniteSets, TLC

\* ------------------------------------------------------------------------
\* Bounds of the model
\* ------------------------------------------------------------------------
MaxActs == 2
MaxGen == 4
MaxOps == 5
ListOps == 5
TwoOps == 4
MemOps == 5
TplOps == 2
DebounceOps == 3
MaxTime == 7
MaxReports == 2
MaxSaved == 51
FailOps == 5
AiOps == 3
MaxPlanDay == 10
MaxCostRows == 2
AuthOps == 3
ReloadOps == 3
ShiftOps == 4
MaxStored == 4
QueueOps == 3
MaxRows == 1
StoreEdits == 1
StoreSaves == 4
StoreNav == 3

\* ------------------------------------------------------------------------
\* Character-level string helpers (JavaScript String / RegExp semantics)
\* ------------------------------------------------------------------------
Digits == {"0", "1", "2", "3", "4", "5", "6", "7", "8", "9"}

DigitVal(c) ==
  CASE c = "0" -> 0 [] c = "1" -> 1 [] c = "2" -> 2 [] c = "3" -> 3
    [] c = "4" -> 4 [] c = "5" -> 5 [] c = "6" -> 6 [] c = "7" -> 7
    [] c = "8" -> 8 [] c = "9" -> 9

DigitChar(n) ==
  CASE n = 0 -> "0" [] n = 1 -> "1" [] n = 2 -> "2" [] n = 3 -> "3"
    [] n = 4 -> "4" [] n = 5 -> "5" [] n = 6 -> "6" [] n = 7 -> "7"
    [] n = 8 -> "8" [] n = 9 -> "9"

LowerLetters ==
  <<"a", "b", "c", "d", "e", "f", "g", "h", "i", "j", "k", "l", "m",
    "n", "o", "p", "q", "r", "s", "t", "u", "v", "w", "x", "y", "z">>
UpperLetters ==
  <<"A", "B", "C", "D", "E", "F", "G", "H", "I", "J", "K", "L", "M",
    "N", "O", "P", "Q", "R", "S", "T", "U", "V", "W", "X", "Y", "Z">>

\* position of c in letters, 0 when it is not one of them
LetterIndex(c, letters) ==
  IF \E i \in 1..Len(letters) : letters[i] = c
    THEN CHOOSE i \in 1..Len(letters) : letters[i] = c
    ELSE 0

ToUpperChar(c) ==
  IF LetterIndex(c, LowerLetters) > 0
    THEN UpperLetters[LetterIndex(c, LowerLetters)] ELSE c

ToLowerChar(c) ==
  IF LetterIndex(c, UpperLetters) > 0
    THEN LowerLetters[LetterIndex(c, UpperLetters)] ELSE c

toLowerCase(s) == [i \in 1..Len(s) |-> ToLowerChar(s[i])]

\* String.prototype.trim, the white space being the blank
RECURSIVE trimStart(_)
trimStart(s) == IF s # <<>> /\ Head(s) = " " THEN trimStart(Tail(s)) ELSE s

RECURSIVE trimEnd(_)
trimEnd(s) ==
  IF s # <<>> /\ s[Len(s)] = " " THEN trimEnd(SubSeq(s, 1, Len(s) - 1)) ELSE s

trim(s) == trimEnd(trimStart(s))

\* s.replace(/\s+/g, " ")
RECURSIVE collapseSpaces(_)
collapseSpaces(s) ==
  IF s = <<>> THEN <<>>
  ELSE IF Head(s) = " "
         THEN <<" ">> \o collapseSpaces(trimStart(s))
         ELSE <<Head(s)>> \o collapseSpaces(Tail(s))

\* s.split(" ").filter(Boolean)
RECURSIVE splitWords(_)
splitWords(s) ==
  LET t == trimStart(s) IN
  IF t = <<>> THEN <<>>
  ELSE LET n == IF \E i \in 1..Len(t) : t[i] = " "
                  THEN (CHOOSE i \in 1..Len(t) :
                          t[i] = " " /\ \A j \in 1..(i - 1) : t[j] # " ") - 1
                  ELSE Len(t)
       IN <<SubSeq(t, 1, n)>> \o splitWords(SubSeq(t, n + 1, Len(t)))

\* words.join(" ")
RECURSIVE joinWords(_)
joinWords(ws) ==
  IF ws = <<>> THEN <<>>
  ELSE IF Len(ws) = 1 THEN Head(ws)
  ELSE Head(ws) \o <<" ">> \o joinWords(Tail(ws))

toUpperCase(s) == [i \in 1..Len(s) |-> ToUpperChar(s[i])]

\* position of the first digit of s, 0 when s has none
FirstDigitPos(s) ==
  IF \E i \in 1..Len(s) : s[i] \in Digits
    THEN CHOOSE i \in 1..Len(s) :
           s[i] \in Digits /\ \A j \in 1..(i - 1) : s[j] \notin Digits
    ELSE 0

\* s.match(/\d+/)?.[0] : the first maximal run of digits, <<>> when none
FirstDigitRun(s) ==
  LET p == FirstDigitPos(s) IN
  IF p = 0 THEN <<>>
  ELSE LET e == CHOOSE k \in p..Len(s) :
                  /\ \A j \in p..k : s[j] \in Digits
                  /\ (k = Len(s) \/ s[k + 1] \notin Digits)
       IN SubSeq(s, p, e)

\* s.match(/^[^\d]+/)?.[0] and match[1] of /(.*?)(\d+)/ : the characters
\* before the first digit (the whole string when it has no digit)
LeadingNonDigits(s) ==
  LET p == FirstDigitPos(s) IN
  IF p = 0 THEN s ELSE SubSeq(s, 1, p - 1)

RECURSIVE parseInt(_)
parseInt(ds) ==
  IF ds = <<>> THEN 0
  ELSE 10 * parseInt(SubSeq(ds, 1, Len(ds) - 1)) + DigitVal(ds[Len(ds)])

RECURSIVE NumToString(_)
NumToString(n) ==
  IF n < 10 THEN <<DigitChar(n)>>
  ELSE NumToString(n \div 10) \o <<DigitChar(n % 10)>>

RECURSIVE padStart(_, _, _)
padStart(s, w, c) == IF Len(s) >= w THEN s ELSE padStart(<<c>> \o s, w, c)

ACT == <<"A", "C", "T", "-">>

\* the number padded to 4 digits instead of 5
formatActIdPad4(n) == ACT \o padStart(NumToString(n), 4, "0")

formatActId(n) == ACT \o padStart(NumToString(n), 5, "0")

\* ------------------------------------------------------------------------
\* Data model (src/types.ts)
\* ------------------------------------------------------------------------
Sessions == {"s1", "s2"}
S1 == "s1"
Dates == {"2024-03-01", "2024-03-02"}
Today == "2024-03-01"
Null == "null"
NoDoc == [exists |-> FALSE]
Undef == <<"undefined">>
NoReport == NoDoc
NoTemplate == [none |-> TRUE]

\* generateId(): values are only ever compared for equality, so the random
\* 7-character string is a fresh element of a pool
IdPool == {ToString(k) : k \in 1..MaxGen}
HasFresh(used) == \E k \in 1..MaxGen : ToString(k) \notin used
generateId(used) ==
  ToString(CHOOSE k \in 1..MaxGen :
             /\ ToString(k) \notin used
             /\ \A j \in 1..(k - 1) : ToString(j) \in used)

Categories == {"", "Alpha"}
EntryCategories == {"manpower", "material", "equipment", "subcontractor"}
MemCategories == EntryCategories \cup {"risk"}

\* const cat = a.workCategory || 'Uncategorized'
CatName(c) == IF c = "" THEN "Uncategorized" ELSE c
\* rank of a category name under Array.prototype.sort() (UTF-16 order)
CatRank(n) == CASE n = "Alpha" -> 1 [] n = "Uncategorized" -> 2

NewActivity(aid, n) ==
  [id |-> aid, activityId |-> ACT \o padStart(NumToString(n), 5, "0"),
   order |-> n, workCategory |-> "",
   manpower |-> <<>>, material |-> <<>>, equipment |-> <<>>,
   subcontractor |-> <<>>, risks |-> <<>>]

emptyResourceMemory == [c \in MemCategories |-> <<>>]

VARIABLES
  docs,               \* Firestore users/{uid}/reports : document key -> data
  memDoc,             \* Firestore users/{uid}/resourceMemory/main
  localReports,       \* localStorage report list of each browser
  legacyApp,          \* which App component of src/App.tsx hosts the form
  date,               \* EntryForm state, per session
  reportId,
  activities,
  selectedActivityId,
  resourceMemory,
  existingReport,     \* prop handed down by App (editingReport)
  loading,            \* the report load effect has a read in flight
  blur,               \* handleActivityIdBlur in flight
  save,               \* handleSave in flight
  copy,               \* handleCopyReport in flight
  ops,                \* user operations still allowed, by kind
  last,               \* the last operation and what it acted on
  tplDocs,            \* Firestore users/{uid}/manpowerTemplates : doc id -> data
  mpTemplates,        \* EntryForm state: the name templates, per session
  mpSaveTimerRef,     \* the debounce timer of queueSaveManpowerTemplate
  now,                \* the time, in units of 100 ms
  tplLog,             \* the calls and the store writes of the name templates
  appReports,         \* App state `reports`: the report list handed to the views
  csvFile,            \* the CSV file downloaded last
  schedule,           \* Milestones: the master log
  uniqueActivities,   \* BarChart: the activities of the duration chart
  chat,               \* Chatbot state and its request in flight
  dashboard,          \* Dashboard state and its request in flight
  planAct,            \* `act`: the planning fields of the active activity
  asOnDate,           \* EntryForm state: the reference date of the formulas
  formula,            \* EntryForm: the figures derived from them
  chartData,          \* BarChart: the planned duration of the same activity
  memLoad,            \* the resource memory load effect has a read in flight
  unhandled,          \* a rejection left a handler uncaught
  identity,           \* Firebase Auth: the signed-in identity, or none
  authEvents,         \* auth state changes not yet handed to the App's listener
  authPc,             \* Auth.handleAuth: where the login of the Auth screen is
  user,               \* App state: the current user
  requests            \* App: the addUser and getReports calls in flight

vars == <<docs, memDoc, localReports, legacyApp, date, reportId, activities,
          selectedActivityId, resourceMemory, existingReport, loading, blur,
          save, copy, ops, last, tplDocs, mpTemplates, mpSaveTimerRef, now,
          tplLog, appReports, csvFile, schedule, uniqueActivities, chat,
          dashboard, planAct, asOnDate, formula, chartData, memLoad, unhandled,
          identity, authEvents, authPc, user, requests>>

\* the entry form's report state
formVars == <<docs, memDoc, localReports, legacyApp, date, reportId, activities,
              selectedActivityId, resourceMemory, existingReport, loading,
              blur, save, copy>>

\* the name templates of the manpower rows and their debounce timer
templateVars == <<tplDocs, mpTemplates, mpSaveTimerRef, now, tplLog>>
TemplatesUnchanged == UNCHANGED templateVars

\* the App's report list and what the views derive from it, the assistant,
\* the progress formulas
appVars == <<appReports, csvFile, schedule, uniqueActivities, chat, dashboard,
             planAct, asOnDate, formula, chartData>>
AppUnchanged == UNCHANGED appVars

\* no read is started and no rejection escapes
Handled == UNCHANGED <<memLoad, unhandled>>

\* sign-in, the App's user and its requests
authVars == <<identity, authEvents, authPc, user, requests>>
AuthUnchanged == UNCHANGED authVars

DocKeys == Dates \cup IdPool

\* ------------------------------------------------------------------------
\* The document store (Firestore, external): setDoc(ref, data, {merge:true})
\* replaces every top-level field that data names and keeps the others; an
\* array field is replaced as a whole
\* ------------------------------------------------------------------------
\* a store that keeps the fields of the document that is already there
setDocKeepExisting(old, data) ==
  IF old = NoDoc THEN data
  ELSE [f \in (DOMAIN old) \cup (DOMAIN data) |->
          IF f \in DOMAIN old THEN old[f] ELSE data[f]]

setDocMerge(old, data) ==
  IF old = NoDoc THEN data
  ELSE [f \in (DOMAIN old) \cup (DOMAIN data) |->
          IF f \in DOMAIN data THEN data[f] ELSE old[f]]

\* doc(db, 'users', report.userId, 'reports', report.date)
ReportDocKey(report) == report.date

\* StorageService.saveReport of the entry form
saveReport(store, report) ==
  [store EXCEPT ![ReportDocKey(report)] = setDocMerge(@, report)]

StoredKeys(store) == {k \in DOMAIN store : store[k] # NoDoc}

\* ------------------------------------------------------------------------
\* Activity numbering (EntryForm.tsx)
\* ------------------------------------------------------------------------
\* a renumbering that fills in only the IDs that are empty
reindexActivitiesKeepIds(acts) ==
  [i \in 1..Len(acts) |->
     [acts[i] EXCEPT !.order = i,
        !.activityId = IF @ # <<>> THEN @ ELSE formatActId(i)]]

\* acts.map((a, idx) => ({ ...a, order: idx + 1, activityId: formatActId(idx + 1) }))
reindexActivities(acts) ==
  [i \in 1..Len(acts) |->
     [acts[i] EXCEPT !.order = i, !.activityId = formatActId(i)]]

RECURSIVE MaxOrder(_)
MaxOrder(acts) ==
  IF acts = <<>> THEN 0
  ELSE LET m == MaxOrder(Tail(acts)) IN
       IF Head(acts).order > m THEN Head(acts).order ELSE m

\* the activities grouped by category (categories sorted by name), each
\* group in list order, as their opaque ids
getVisualIds(acts) ==
  LET IdsOf(rank) ==
        LET InCat(a) == CatRank(CatName(a.workCategory)) = rank
            sel == SelectSeq(acts, InCat)
        IN [i \in 1..Len(sel) |-> sel[i].id]
  IN IdsOf(1) \o IdsOf(2)

IndexOf(seq, x) ==
  IF \E i \in 1..Len(seq) : seq[i] = x
    THEN CHOOSE i \in 1..Len(seq) :
           seq[i] = x /\ \A j \in 1..(i - 1) : seq[j] # x
    ELSE 0

\* arrayMove of @dnd-kit/sortable: take the element out, put it at the new index
arrayMove(seq, from, to) ==
  LET without == SubSeq(seq, 1, from - 1) \o SubSeq(seq, from + 1, Len(seq))
  IN SubSeq(without, 1, to - 1) \o <<seq[from]>> \o SubSeq(without, to, Len(without))

ActById(acts, aid) == acts[CHOOSE i \in 1..Len(acts) : acts[i].id = aid]
ActIds(acts) == {acts[i].id : i \in 1..Len(acts)}

\* ids that generateId must not repeat
UsedActivityIds ==
  UNION {ActIds(activities[s]) : s \in Sessions}
    \cup UNION {ActIds(docs[k].activities) : k \in StoredKeys(docs)}
    \cup UNION {UNION {ActIds(localReports[s][i].activities) :
                         i \in 1..Len(localReports[s])} : s \in Sessions}
    \cup {blur[s].id : s \in Sessions}
    \cup UNION {IF save[s].pc = "idle" THEN {} ELSE ActIds(save[s].report.activities) : s \in Sessions}
    \cup UNION {IF copy[s].pc = "idle" THEN {} ELSE ActIds(copy[s].report.activities) : s \in Sessions}
    \cup UNION {IF existingReport[s] = NoReport THEN {} ELSE ActIds(existingReport[s].activities) : s \in Sessions}

UsedReportIds ==
  {reportId[s] : s \in Sessions}
    \cup {docs[k].id : k \in StoredKeys(docs)}
    \cup UNION {{localReports[s][i].id : i \in 1..Len(localReports[s])} : s \in Sessions}
    \cup UNION {IF save[s].pc = "idle" THEN {} ELSE {save[s].report.id} : s \in Sessions}
    \cup UNION {IF copy[s].pc = "idle" THEN {} ELSE {copy[s].report.id} : s \in Sessions}
    \cup UNION {IF existingReport[s] = NoReport THEN {} ELSE {existingReport[s].id} : s \in Sessions}

NoTimer == [pending |-> FALSE]

InitTemplates ==
  /\ tplDocs = <<>>
  /\ mpTemplates = [s \in Sessions |-> <<>>]
  /\ mpSaveTimerRef = [s \in Sessions |-> NoTimer]
  /\ now = 0
  /\ tplLog = <<>>

NoFile == [by |-> "none"]
NoFormula == [none |-> TRUE]
NoAct == [none |-> TRUE]

InitReports ==
  /\ appReports = <<>>
  /\ csvFile = NoFile
  /\ schedule = <<>>
  /\ uniqueActivities = <<>>

\* no insight yet: the null of useState, kept apart from every text
NoInsight == <<"null">>
Welcome == [role |-> "model", text |-> <<"Hello! I am your SiteLog Assistant.">>]

NoIdentity == [none |-> TRUE]
NoUser == "null"

\* nobody is signed in
InitAuth ==
  /\ identity = NoIdentity
  /\ authEvents = <<>>
  /\ authPc = "idle"
  /\ user = NoUser
  /\ requests = {}

InitAi ==
  /\ chat = [pc |-> "idle", isLoading |-> FALSE, messages |-> <<Welcome>>]
  /\ dashboard = [pc |-> "idle", loadingAi |-> FALSE, aiInsight |-> NoInsight]

InitPlan ==
  /\ planAct = NoAct
  /\ asOnDate = <<>>
  /\ formula = NoFormula
  /\ chartData = NoFormula

\* the resource memory has been read, nothing has gone wrong
InitHandled ==
  /\ memLoad = [s \in Sessions |-> FALSE]
  /\ unhandled = FALSE

InitApp == InitReports /\ InitAi /\ InitAuth /\ InitPlan /\ InitHandled

Idle == [pc |-> "idle"]
IdleBlur == [pc |-> "idle", id |-> Null]

\* ------------------------------------------------------------------------
\* Initial state: both forms mounted on today's date, nothing stored yet,
\* the first report load in flight
\* ------------------------------------------------------------------------
InitEntryForm ==
  /\ docs = [k \in DocKeys |-> NoDoc]
  /\ memDoc = emptyResourceMemory
  /\ localReports = [s \in Sessions |-> <<>>]
  /\ date = [s \in Sessions |-> Today]
  /\ reportId = [s \in Sessions |-> IF s = "s1" THEN "1" ELSE "2"]
  /\ activities = [s \in Sessions |-> <<>>]
  /\ selectedActivityId = [s \in Sessions |-> Null]
  /\ resourceMemory = [s \in Sessions |-> emptyResourceMemory]
  /\ existingReport = [s \in Sessions |-> NoReport]
  /\ loading = [s \in Sessions |-> TRUE]
  /\ blur = [s \in Sessions |-> IdleBlur]
  /\ save = [s \in Sessions |-> Idle]
  /\ copy = [s \in Sessions |-> Idle]
  /\ last = [op |-> "init"]
  /\ InitTemplates

InitForm == InitEntryForm /\ InitApp

\* the entry form under the Firestore App
Init ==
  /\ InitForm
  /\ legacyApp = FALSE
  /\ ops = [edit |-> MaxOps, save |-> MaxOps, nav |-> MaxOps, total |-> MaxOps]

\* the entry form under either App, saving and changing dates
InitStore ==
  /\ InitForm
  /\ legacyApp \in BOOLEAN
  /\ ops = [edit |-> StoreEdits, save |-> StoreSaves, nav |-> StoreNav,
            total |-> StoreEdits + StoreSaves + StoreNav]

\* the budget of user operations: one per kind and one in total
CanDo(kind) == ops[kind] > 0 /\ ops.total > 0
Did(kind) == ops' = [ops EXCEPT ![kind] = @ - 1, !.total = @ - 1]

StoreUnchanged == UNCHANGED <<docs, memDoc, localReports, legacyApp>>
AsyncUnchanged == UNCHANGED <<blur, save, copy>>

\* ------------------------------------------------------------------------
\* Report load effect (EntryForm.tsx 590-630)
\* ------------------------------------------------------------------------
\* setDate from the calendar; the effect for the old date is cancelled and a
\* new one starts. With an existingReport for the new date the effect applies
\* it at once, otherwise it awaits getReportByDate.
SetDate(s, d) ==
  /\ CanDo("nav")
  /\ d # date[s]
  /\ date' = [date EXCEPT ![s] = d]
  /\ IF existingReport[s] # NoReport /\ existingReport[s].date = d
       THEN /\ reportId' = [reportId EXCEPT ![s] = existingReport[s].id]
            /\ activities' = [activities EXCEPT ![s] = existingReport[s].activities]
            /\ selectedActivityId' = [selectedActivityId EXCEPT ![s] = Null]
            /\ loading' = [loading EXCEPT ![s] = FALSE]
       ELSE /\ loading' = [loading EXCEPT ![s] = TRUE]
            /\ UNCHANGED <<reportId, activities, selectedActivityId>>
  /\ Did("nav")
  /\ last' = [op |-> "setDate", s |-> s]
  /\ StoreUnchanged /\ AsyncUnchanged
  /\ UNCHANGED <<resourceMemory, existingReport>>
  /\ TemplatesUnchanged
  /\ AppUnchanged
  /\ Handled /\ AuthUnchanged

\* getReportByDate resolves (found is FALSE also when the read rejects: the
\* catch branch does what the not-found branch does)
LoadComplete(s, ok) ==
  /\ loading[s]
  /\ LET existing == docs[date[s]] IN
     IF ok /\ existing # NoDoc
       THEN /\ reportId' = [reportId EXCEPT ![s] = existing.id]
            /\ activities' = [activities EXCEPT ![s] = existing.activities]
       ELSE /\ HasFresh(UsedReportIds)
            /\ reportId' = [reportId EXCEPT ![s] = generateId(UsedReportIds)]
            /\ activities' = [activities EXCEPT ![s] = <<>>]
  /\ selectedActivityId' = [selectedActivityId EXCEPT ![s] = Null]
  /\ loading' = [loading EXCEPT ![s] = FALSE]
  /\ last' = [op |-> "load", s |-> s]
  /\ StoreUnchanged /\ AsyncUnchanged
  /\ UNCHANGED <<date, resourceMemory, existingReport, ops>>
  /\ TemplatesUnchanged
  /\ AppUnchanged
  /\ Handled /\ AuthUnchanged

\* ------------------------------------------------------------------------
\* Resource memory load effect (EntryForm.tsx 526-537)
\* ------------------------------------------------------------------------
\* getResourceMemory resolves or rejects; the catch keeps the memory the form
\* holds
MemLoadComplete(s, ok) ==
  /\ memLoad[s]
  /\ memLoad' = [memLoad EXCEPT ![s] = FALSE]
  /\ resourceMemory' = IF ok THEN [resourceMemory EXCEPT ![s] = memDoc]
                             ELSE resourceMemory
  /\ last' = [op |-> "memLoad", s |-> s, ok |-> ok]
  /\ StoreUnchanged /\ AsyncUnchanged
  /\ UNCHANGED <<date, reportId, activities, selectedActivityId,
                 existingReport, loading, ops>>
  /\ TemplatesUnchanged
  /\ AppUnchanged
  /\ UNCHANGED unhandled
  /\ AuthUnchanged

\* ------------------------------------------------------------------------
\* Structural edits of the activity list (EntryForm.tsx 495-515, 643-663)
\* ------------------------------------------------------------------------
addActivity(s) ==
  /\ CanDo("edit")
  /\ Len(activities[s]) < MaxActs
  /\ HasFresh(UsedActivityIds)
  /\ LET nextNum == MaxOrder(activities[s]) + 1
         newActivity == NewActivity(generateId(UsedActivityIds), nextNum)
     IN /\ activities' = [activities EXCEPT
                            ![s] = reindexActivities(Append(@, newActivity))]
        /\ selectedActivityId' = [selectedActivityId EXCEPT ![s] = newActivity.id]
  /\ Did("edit")
  /\ last' = [op |-> "addActivity", s |-> s, pre |-> activities[s]]
  /\ StoreUnchanged /\ AsyncUnchanged
  /\ UNCHANGED <<date, reportId, resourceMemory, existingReport, loading>>
  /\ TemplatesUnchanged
  /\ AppUnchanged
  /\ Handled /\ AuthUnchanged

deleteSelectedActivity(s) ==
  /\ CanDo("edit")
  /\ selectedActivityId[s] # Null
  /\ LET Keep(a) == a.id # selectedActivityId[s]
     IN activities' = [activities EXCEPT
                         ![s] = reindexActivities(SelectSeq(@, Keep))]
  /\ selectedActivityId' = [selectedActivityId EXCEPT ![s] = Null]
  /\ Did("edit")
  /\ last' = [op |-> "deleteSelectedActivity", s |-> s, pre |-> activities[s]]
  /\ StoreUnchanged /\ AsyncUnchanged
  /\ UNCHANGED <<date, reportId, resourceMemory, existingReport, loading>>
  /\ TemplatesUnchanged
  /\ AppUnchanged
  /\ Handled /\ AuthUnchanged

handleDragEnd(s, activeId, overId) ==
  /\ CanDo("edit")
  /\ activeId # overId
  /\ LET prev == activities[s]
         visualIds == getVisualIds(prev)
         oldIndex == IndexOf(visualIds, activeId)
         newIndex == IndexOf(visualIds, overId)
     IN /\ oldIndex # 0 /\ newIndex # 0
        /\ LET newVisualIds == arrayMove(visualIds, oldIndex, newIndex)
               reordered == [i \in 1..Len(newVisualIds) |->
                               ActById(prev, newVisualIds[i])]
           IN activities' = [activities EXCEPT ![s] = reindexActivities(reordered)]
  /\ Did("edit")
  /\ last' = [op |-> "handleDragEnd", s |-> s, pre |-> activities[s]]
  /\ StoreUnchanged /\ AsyncUnchanged
  /\ UNCHANGED <<date, reportId, selectedActivityId, resourceMemory,
                 existingReport, loading>>
  /\ TemplatesUnchanged
  /\ AppUnchanged
  /\ Handled /\ AuthUnchanged

\* onClick of an activity card
SelectActivity(s, aid) ==
  /\ aid \in ActIds(activities[s])
  /\ aid # selectedActivityId[s]
  /\ selectedActivityId' = [selectedActivityId EXCEPT ![s] = aid]
  /\ last' = [op |-> "select", s |-> s]
  /\ StoreUnchanged /\ AsyncUnchanged
  /\ UNCHANGED <<date, reportId, activities, resourceMemory, existingReport,
                 loading, ops>>
  /\ TemplatesUnchanged
  /\ AppUnchanged
  /\ Handled /\ AuthUnchanged

\* a map that sets the field of every activity
updateEveryActivity(acts, aid, field, value) ==
  [i \in 1..Len(acts) |-> [acts[i] EXCEPT ![field] = value]]

\* setActivities(prev => prev.map(a => a.id === id ? { ...a, [field]: value } : a))
updateActivityField(acts, aid, field, value) ==
  [i \in 1..Len(acts) |->
     IF acts[i].id = aid THEN [acts[i] EXCEPT ![field] = value] ELSE acts[i]]

\* a non-structural field edit of the selected activity (here the work category)
EditField(s, c) ==
  /\ CanDo("edit")
  /\ selectedActivityId[s] \in ActIds(activities[s])
  /\ ActById(activities[s], selectedActivityId[s]).workCategory # c
  /\ activities' = [activities EXCEPT
       ![s] = updateActivityField(@, selectedActivityId[s], "workCategory", c)]
  /\ Did("edit")
  /\ last' = [op |-> "editField", s |-> s, pre |-> activities[s]]
  /\ StoreUnchanged /\ AsyncUnchanged
  /\ UNCHANGED <<date, reportId, selectedActivityId, resourceMemory,
                 existingReport, loading>>
  /\ TemplatesUnchanged
  /\ AppUnchanged
  /\ Handled /\ AuthUnchanged

\* ------------------------------------------------------------------------
\* Typed activity IDs and the ripple shift
\* (EntryForm.tsx 127-180, 665-694; part_005 134-171)
\* ------------------------------------------------------------------------
\* what the user types into the Activity ID input
TypedIds ==
  { formatActId(1),
    formatActId(2),
    <<"a", "c", "t", "-", "0", "0", "0", "0", "1">>,
    <<"B", "-", "0", "0", "0", "0", "1">>,
    <<"A", "B">> }

\* const getNum = (idStr) => parseInt(String(idStr).match(/\d+/)?.[0] || '0', 10)
getNum(idStr) == parseInt(FirstDigitRun(idStr))

\* aId.match(/^[^\d]+/)?.[0] || dflt
getPrefix(aId, dflt) ==
  IF LeadingNonDigits(aId) = <<>> THEN dflt ELSE LeadingNonDigits(aId)

\* activityId.match(/(.*?)(\d+)/)
HasMatch(activityId) == FirstDigitPos(activityId) # 0
\* match[1] || 'ACT-'
MatchPrefix(activityId) == getPrefix(activityId, ACT)

\* rep?.activities?.some(a => String(a.activityId || '').toUpperCase() === target)
findActivityHistory(store, activityId) ==
  LET target == toUpperCase(activityId) IN
  \E k \in StoredKeys(store) :
    \E i \in 1..Len(store[k].activities) :
      toUpperCase(store[k].activities[i].activityId) = target

\* the map() callback of rippleShiftActivityIds
ShiftStored(a, prefix, conflictNum) ==
  LET aId == a.activityId
      n == getNum(aId)
      p == getPrefix(aId, prefix)
  IN IF toUpperCase(p) = toUpperCase(prefix) /\ n >= conflictNum
       THEN [a EXCEPT !.activityId = p \o padStart(NumToString(n + 1), 5, "0")]
       ELSE a

ShiftedReport(rep, activityId) ==
  [rep EXCEPT !.activities =
     [i \in 1..Len(rep.activities) |->
        ShiftStored(rep.activities[i], MatchPrefix(activityId), getNum(activityId))]]

\* the documents the batch will set: those with a changed activity, each
\* written under its own date
RippleBatch(snaps, activityId) ==
  {ShiftedReport(snaps[k], activityId) :
     k \in {j \in StoredKeys(snaps) :
              /\ Len(snaps[j].activities) > 0
              /\ ShiftedReport(snaps[j], activityId) # snaps[j]}}

\* batch.commit(): every batch.set(ref, data, { merge: true }) is applied
CommitBatch(store, batch) ==
  [k \in DOMAIN store |->
     IF \E w \in batch : ReportDocKey(w) = k
       THEN setDocMerge(store[k], CHOOSE w \in batch : ReportDocKey(w) = k)
       ELSE store[k]]

\* the setActivities(prev => ...) of handleActivityIdBlur after a shift
ShiftInMemory(prev, id, upperId) ==
  LET conflictNum == getNum(upperId) IN
  [i \in 1..Len(prev) |->
     IF prev[i].id = id THEN [prev[i] EXCEPT !.activityId = upperId]
     ELSE LET currentNum == getNum(prev[i].activityId) IN
          IF currentNum >= conflictNum
            THEN [prev[i] EXCEPT !.activityId =
                    getPrefix(prev[i].activityId, ACT)
                      \o padStart(NumToString(currentNum + 1), 5, "0")]
            ELSE prev[i]]

\* onChange of the Activity ID input: the raw typed value goes into the list
TypeActivityId(s, v) ==
  /\ CanDo("edit")
  /\ selectedActivityId[s] \in ActIds(activities[s])
  /\ ActById(activities[s], selectedActivityId[s]).activityId # v
  /\ activities' = [activities EXCEPT
       ![s] = updateActivityField(@, selectedActivityId[s], "activityId", v)]
  /\ Did("edit")
  /\ last' = [op |-> "typeActivityId", s |-> s, pre |-> activities[s]]
  /\ StoreUnchanged /\ AsyncUnchanged
  /\ UNCHANGED <<date, reportId, selectedActivityId, resourceMemory,
                 existingReport, loading>>
  /\ TemplatesUnchanged
  /\ AppUnchanged
  /\ Handled /\ AuthUnchanged

\* onBlur of the Activity ID input: handleActivityIdBlur(act.id, value) up to
\* its first await. conflictInCurrent reads the list of the render that
\* created the handler.
BlurStart(s) ==
  /\ CanDo("edit")
  /\ blur[s].pc = "idle"
  /\ selectedActivityId[s] \in ActIds(activities[s])
  /\ LET id == selectedActivityId[s]
         upperId == toUpperCase(ActById(activities[s], id).activityId)
     IN blur' = [blur EXCEPT ![s] =
          [pc |-> "find", id |-> id, upperId |-> upperId,
           conflictInCurrent |->
             \E i \in 1..Len(activities[s]) :
               /\ activities[s][i].activityId = upperId
               /\ activities[s][i].id # id]]
  /\ Did("edit")
  /\ last' = [op |-> "blurStart", s |-> s]
  /\ StoreUnchanged
  /\ UNCHANGED <<date, reportId, activities, selectedActivityId,
                 resourceMemory, existingReport, loading, save, copy>>
  /\ TemplatesUnchanged
  /\ AppUnchanged
  /\ Handled /\ AuthUnchanged

\* findActivityHistory resolves; on a conflict window.confirm asks the user.
\* Without a conflict, or when the user declines, only the edited activity
\* gets the typed ID. A shift for an ID without digits returns at once.
BlurFind(s, confirmShift) ==
  /\ blur[s].pc = "find"
  /\ LET b == blur[s]
         conflictInHistory == findActivityHistory(docs, b.upperId)
         conflict == conflictInHistory \/ b.conflictInCurrent
     IN /\ (~conflict => ~confirmShift)
        /\ IF conflict /\ confirmShift
             THEN IF HasMatch(b.upperId)
                    THEN /\ blur' = [blur EXCEPT ![s].pc = "rippleRead"]
                         /\ UNCHANGED activities
                    ELSE /\ blur' = [blur EXCEPT ![s] = IdleBlur]
                         /\ activities' = [activities EXCEPT
                              ![s] = ShiftInMemory(@, b.id, b.upperId)]
             ELSE /\ blur' = [blur EXCEPT ![s] = IdleBlur]
                  /\ activities' = [activities EXCEPT
                       ![s] = updateActivityField(@, b.id, "activityId", b.upperId)]
        /\ last' = [op |-> "blurFind", s |-> s, pre |-> activities[s],
                    id |-> b.id, upperId |-> b.upperId,
                    conflict |-> conflict, confirmShift |-> confirmShift,
                    conflictInCurrent |-> b.conflictInCurrent,
                    store |-> docs]
  /\ StoreUnchanged
  /\ UNCHANGED <<date, reportId, selectedActivityId, resourceMemory,
                 existingReport, loading, save, copy, ops>>
  /\ TemplatesUnchanged
  /\ AppUnchanged
  /\ Handled /\ AuthUnchanged

\* getDocs of rippleShiftActivityIds resolves and the batch is built; an
\* empty batch is not committed and the in-memory shift follows at once
RippleRead(s) ==
  /\ blur[s].pc = "rippleRead"
  /\ LET b == blur[s]
         batch == RippleBatch(docs, b.upperId)
     IN IF batch = {}
          THEN /\ blur' = [blur EXCEPT ![s] = IdleBlur]
               /\ activities' = [activities EXCEPT
                    ![s] = ShiftInMemory(@, b.id, b.upperId)]
               /\ last' = [op |-> "rippleDone", s |-> s, pre |-> activities[s],
                           id |-> b.id, upperId |-> b.upperId,
                           store |-> docs, snaps |-> docs]
          ELSE /\ blur' = [blur EXCEPT ![s] =
                    [b EXCEPT !.pc = "rippleCommit"] @@
                      [batch |-> batch, snaps |-> docs]]
               /\ last' = [op |-> "rippleRead", s |-> s]
               /\ UNCHANGED activities
  /\ StoreUnchanged
  /\ UNCHANGED <<date, reportId, selectedActivityId, resourceMemory,
                 existingReport, loading, save, copy, ops>>
  /\ TemplatesUnchanged
  /\ AppUnchanged
  /\ Handled /\ AuthUnchanged

\* batch.commit() resolves, then the open report's list is shifted
RippleCommit(s) ==
  /\ blur[s].pc = "rippleCommit"
  /\ LET b == blur[s]
     IN /\ docs' = CommitBatch(docs, b.batch)
        /\ activities' = [activities EXCEPT
             ![s] = ShiftInMemory(@, b.id, b.upperId)]
        /\ last' = [op |-> "rippleDone", s |-> s, pre |-> activities[s],
                    id |-> b.id, upperId |-> b.upperId,
                    store |-> docs, snaps |-> b.snaps]
  /\ blur' = [blur EXCEPT ![s] = IdleBlur]
  /\ UNCHANGED <<memDoc, localReports, legacyApp>>
  /\ UNCHANGED <<date, reportId, selectedActivityId, resourceMemory,
                 existingReport, loading, save, copy, ops>>
  /\ TemplatesUnchanged
  /\ AppUnchanged
  /\ Handled /\ AuthUnchanged

\* a store call of handleActivityIdBlur rejects: nothing catches it, the
\* handler ends there
BlurReject(s) ==
  /\ blur[s].pc \in {"find", "rippleRead", "rippleCommit"}
  /\ blur' = [blur EXCEPT ![s] = IdleBlur]
  /\ last' = [op |-> "blurReject", s |-> s]
  /\ StoreUnchanged
  /\ UNCHANGED <<date, reportId, activities, selectedActivityId,
                 resourceMemory, existingReport, loading, save, copy, ops>>
  /\ TemplatesUnchanged
  /\ AppUnchanged
  /\ unhandled' = TRUE
  /\ UNCHANGED memLoad
  /\ AuthUnchanged

\* ------------------------------------------------------------------------
\* Resource rows and the code-keyed smart memory (EntryForm.tsx 712-726,
\* 825-836). A string field that is absent holds Undef and an absent number
\* holds UndefNum; '' , 0 and undefined are the falsy values of a || b.
\* ------------------------------------------------------------------------
UndefNum == 0 - 1

OrStr(a, b) == IF a = <<>> \/ a = Undef THEN b ELSE a
OrNum(a, b) == IF a = 0 \/ a = UndefNum THEN b ELSE a

MapPut(m, k, v) == [x \in (DOMAIN m) \cup {k} |-> IF x = k THEN v ELSE m[x]]

StrField(mem, f) == IF f \in DOMAIN mem THEN mem[f] ELSE Undef
NumField(mem, f) == IF f \in DOMAIN mem THEN mem[f] ELSE UndefNum

\* the template that handleSave writes for a row of each category
TemplateOf(category, m) ==
  CASE category = "manpower" ->
         [name |-> m.name, trade |-> m.trade, unit |-> m.unit, cost |-> m.cost,
          quantity |-> m.quantity, comments |-> m.comments]
    [] category = "subcontractor" ->
         [name |-> m.name, company |-> m.company, unit |-> m.unit,
          cost |-> m.cost, quantity |-> m.quantity, comments |-> m.comments]
    [] category \in {"material", "equipment"} ->
         [name |-> m.name, unit |-> m.unit, cost |-> m.cost,
          quantity |-> m.quantity, comments |-> m.comments]
    [] category = "risk" ->
         [description |-> m.description, likelihood |-> m.likelihood,
          impact |-> m.impact, mitigation |-> m.mitigation, status |-> m.status]

RowsOf(act, category) == IF category = "risk" THEN act.risks ELSE act[category]

\* rows.forEach(m => { if (m.code) newMemory[category][m.code] = {...} })
RECURSIVE RememberRows(_, _, _)
RememberRows(map, category, rows) ==
  IF rows = <<>> THEN map
  ELSE RememberRows(
         IF Head(rows).code # <<>>
           THEN MapPut(map, Head(rows).code, TemplateOf(category, Head(rows)))
           ELSE map,
         category, Tail(rows))

\* activities.forEach(act => { ... }) of handleSave
RECURSIVE RememberActivities(_, _)
RememberActivities(mem, acts) ==
  IF acts = <<>> THEN mem
  ELSE RememberActivities(
         [c \in MemCategories |-> RememberRows(mem[c], c, RowsOf(Head(acts), c))],
         Tail(acts))

\* the row after a template was found for its code
FillRow(category, i, mem, upperCode) ==
  IF category = "risk"
    THEN [i EXCEPT !.description = OrStr(StrField(mem, "description"), @),
                   !.likelihood = OrStr(StrField(mem, "likelihood"), @),
                   !.impact = OrStr(StrField(mem, "impact"), @),
                   !.status = OrStr(StrField(mem, "status"), @),
                   !.mitigation = OrStr(StrField(mem, "mitigation"), @),
                   !.code = upperCode]
    ELSE [i EXCEPT !.name = OrStr(StrField(mem, "name"), @),
                   !.unit = OrStr(StrField(mem, "unit"), @),
                   !.cost = IF NumField(mem, "cost") # UndefNum
                              THEN NumField(mem, "cost") ELSE @,
                   !.trade = OrStr(StrField(mem, "trade"), @),
                   !.company = OrStr(StrField(mem, "company"), @),
                   !.quantity = OrNum(NumField(mem, "quantity"), @),
                   !.comments = OrStr(StrField(mem, "comments"), @),
                   !.code = upperCode]

\* const mem = resourceMemory[category][upperCode]
Lookup(memory, category, code) ==
  IF toUpperCase(code) \in DOMAIN memory[category]
    THEN memory[category][toUpperCase(code)]
    ELSE NoTemplate

SetRows(act, category, rows) ==
  IF category = "risk" THEN [act EXCEPT !.risks = rows]
  ELSE [act EXCEPT ![category] = rows]

\* onBlur of a code input: handleResourceCodeBlur(category, item.id, value)
handleResourceCodeBlur(s, category, itemId) ==
  /\ CanDo("edit")
  /\ selectedActivityId[s] \in ActIds(activities[s])
  /\ LET act == ActById(activities[s], selectedActivityId[s])
         rows == RowsOf(act, category)
     IN /\ \E j \in 1..Len(rows) : rows[j].id = itemId
        /\ LET row == rows[CHOOSE j \in 1..Len(rows) : rows[j].id = itemId]
               code == row.code
               mem == Lookup(resourceMemory[s], category, code)
           IN /\ IF code # <<>> /\ mem # NoTemplate
                   THEN activities' = [activities EXCEPT ![s] =
                          [n \in 1..Len(@) |->
                             IF @[n].id = selectedActivityId[s]
                               THEN SetRows(@[n], category,
                                      [j \in 1..Len(RowsOf(@[n], category)) |->
                                         IF RowsOf(@[n], category)[j].id = itemId
                                           THEN FillRow(category, RowsOf(@[n], category)[j],
                                                        mem, toUpperCase(code))
                                           ELSE RowsOf(@[n], category)[j]])
                               ELSE @[n]]]
                   ELSE UNCHANGED activities
              /\ last' = [op |-> "resourceCodeBlur", s |-> s, pre |-> activities[s],
                          category |-> category, itemId |-> itemId,
                          row |-> row, mem |-> mem]
  /\ Did("edit")
  /\ StoreUnchanged /\ AsyncUnchanged
  /\ UNCHANGED <<date, reportId, selectedActivityId, resourceMemory,
                 existingReport, loading>>
  /\ TemplatesUnchanged
  /\ AppUnchanged
  /\ Handled /\ AuthUnchanged

\* onChange of a code input: updateItemInActivity / updateRiskInActivity
EditItemCode(s, category, itemId, code) ==
  /\ CanDo("edit")
  /\ selectedActivityId[s] \in ActIds(activities[s])
  /\ \E j \in 1..Len(RowsOf(ActById(activities[s], selectedActivityId[s]), category)) :
        /\ RowsOf(ActById(activities[s], selectedActivityId[s]), category)[j].id = itemId
        /\ RowsOf(ActById(activities[s], selectedActivityId[s]), category)[j].code # code
  /\ activities' = [activities EXCEPT ![s] =
       [n \in 1..Len(@) |->
          IF @[n].id = selectedActivityId[s]
            THEN SetRows(@[n], category,
                   [j \in 1..Len(RowsOf(@[n], category)) |->
                      IF RowsOf(@[n], category)[j].id = itemId
                        THEN [RowsOf(@[n], category)[j] EXCEPT !.code = code]
                        ELSE RowsOf(@[n], category)[j]])
            ELSE @[n]]]
  /\ Did("edit")
  /\ last' = [op |-> "editItemCode", s |-> s, pre |-> activities[s]]
  /\ StoreUnchanged /\ AsyncUnchanged
  /\ UNCHANGED <<date, reportId, selectedActivityId, resourceMemory,
                 existingReport, loading>>
  /\ TemplatesUnchanged
  /\ AppUnchanged
  /\ Handled /\ AuthUnchanged

\* onChange of another input of a row: updateItemInActivity(category, id,
\* field, value) / updateRiskInActivity(id, field, value)
EditItemField(s, category, itemId, field, value) ==
  /\ CanDo("edit")
  /\ selectedActivityId[s] \in ActIds(activities[s])
  /\ \E j \in 1..Len(RowsOf(ActById(activities[s], selectedActivityId[s]), category)) :
        /\ RowsOf(ActById(activities[s], selectedActivityId[s]), category)[j].id = itemId
        /\ RowsOf(ActById(activities[s], selectedActivityId[s]), category)[j][field] # value
  /\ activities' = [activities EXCEPT ![s] =
       [n \in 1..Len(@) |->
          IF @[n].id = selectedActivityId[s]
            THEN SetRows(@[n], category,
                   [j \in 1..Len(RowsOf(@[n], category)) |->
                      IF RowsOf(@[n], category)[j].id = itemId
                        THEN [RowsOf(@[n], category)[j] EXCEPT ![field] = value]
                        ELSE RowsOf(@[n], category)[j]])
            ELSE @[n]]]
  /\ Did("edit")
  /\ last' = [op |-> "editItemField", s |-> s, pre |-> activities[s]]
  /\ StoreUnchanged /\ AsyncUnchanged
  /\ UNCHANGED <<date, reportId, selectedActivityId, resourceMemory,
                 existingReport, loading>>
  /\ TemplatesUnchanged
  /\ AppUnchanged
  /\ Handled /\ AuthUnchanged

\* what the user types into the text inputs and the number inputs of a row
StringFields == {"name", "unit", "trade"}
StringValues == { <<>>, <<"k", "g">>, <<"H", "r", "s">> }
NumberFields == {"quantity", "cost"}
NumberValues == {0, 4, 8}
RiskValues == { <<>>, <<"F", "l", "o", "o", "d">> }

\* the row that addRiskToActivity appends
NewRisk(iid, code) ==
  [id |-> iid, code |-> code, description |-> <<>>,
   likelihood |-> <<"L", "o", "w">>, impact |-> <<"L", "o", "w">>,
   status |-> <<"O", "p", "e", "n">>, mitigation |-> <<>>]

\* item.code.split('-')[1] : the text between the first and the second '-'
SplitSecond(code) ==
  IF \E i \in 1..Len(code) : code[i] = "-"
    THEN LET d == CHOOSE i \in 1..Len(code) :
                    code[i] = "-" /\ \A j \in 1..(i - 1) : code[j] # "-"
             rest == SubSeq(code, d + 1, Len(code))
         IN IF \E i \in 1..Len(rest) : rest[i] = "-"
              THEN SubSeq(rest, 1,
                     (CHOOSE i \in 1..Len(rest) :
                        rest[i] = "-" /\ \A j \in 1..(i - 1) : rest[j] # "-") - 1)
              ELSE rest
    ELSE <<>>

\* parseInt(x) || 0 : the leading digits of x, 0 when it has none
LeadingInt(x) ==
  IF x = <<>> \/ x[1] \notin Digits THEN 0 ELSE parseInt(FirstDigitRun(x))

RECURSIVE MaxCode(_)
MaxCode(rows) ==
  IF rows = <<>> THEN 0
  ELSE LET m == MaxCode(Tail(rows))
           c == LeadingInt(SplitSecond(Head(rows).code))
       IN IF c > m THEN c ELSE m

prefixMap(category) ==
  CASE category = "manpower" -> <<"M", "A", "N">>
    [] category = "material" -> <<"M", "A", "T">>
    [] category = "equipment" -> <<"E", "Q">>
    [] category = "subcontractor" -> <<"S", "U", "B">>

NewItem(iid, code) ==
  [id |-> iid, code |-> code, name |-> <<>>, quantity |-> 0, unit |-> <<>>,
   comments |-> <<>>, cost |-> UndefNum, overtime |-> UndefNum,
   trade |-> Undef, company |-> Undef]

RowIds(rows) == {rows[j].id : j \in 1..Len(rows)}

\* addItemToActivity(category): a new row with the next code of the list
addItemToActivity(s, category) ==
  /\ CanDo("edit")
  /\ selectedActivityId[s] \in ActIds(activities[s])
  /\ LET act == ActById(activities[s], selectedActivityId[s])
         currentList == act[category]
     IN /\ Len(currentList) < MaxRows
        /\ HasFresh(RowIds(currentList))
        /\ LET newItem == NewItem(generateId(RowIds(currentList)),
                             prefixMap(category) \o <<"-">> \o
                               padStart(NumToString(MaxCode(currentList) + 1), 2, "0"))
           IN activities' = [activities EXCEPT ![s] =
                [n \in 1..Len(@) |->
                   IF @[n].id = selectedActivityId[s]
                     THEN [@[n] EXCEPT ![category] = Append(currentList, newItem)]
                     ELSE @[n]]]
  /\ Did("edit")
  /\ last' = [op |-> "addItem", s |-> s, pre |-> activities[s]]
  /\ StoreUnchanged /\ AsyncUnchanged
  /\ UNCHANGED <<date, reportId, selectedActivityId, resourceMemory,
                 existingReport, loading>>
  /\ TemplatesUnchanged
  /\ AppUnchanged
  /\ Handled /\ AuthUnchanged

\* what the user types into a code input
TypedCodes == { <<"M", "1">>, <<"m", "1">> }

\* ------------------------------------------------------------------------
\* Manpower name templates (EntryForm.tsx 52-82, 539-569, 732-809). The
\* text fields of the rows are sequences of characters.
\* ------------------------------------------------------------------------
NaN == 0 - 2

\* String(v || "")
Text(v) == IF v = Undef THEN <<>> ELSE v

\* const n = Number(v); return Number.isFinite(n) ? n : fallback
numOr(v, fallback) == IF v = UndefNum \/ v = NaN THEN fallback ELSE v

normalizeKey(s) == toLowerCase(collapseSpaces(trim(Text(s))))

\* w.charAt(0).toUpperCase() + w.slice(1).toLowerCase()
TitleWord(w) == <<ToUpperChar(Head(w))>> \o toLowerCase(Tail(w))

toTitleCase(s) ==
  LET ws == splitWords(collapseSpaces(trim(Text(s))))
  IN joinWords([i \in 1..Len(ws) |-> TitleWord(ws[i])])

HourUnits ==
  { <<"h", "r">>, <<"h", "r", "s">>, <<"h", "o", "u", "r">>,
    <<"h", "o", "u", "r", "s">>, <<"h">> }
DayUnits == { <<"d", "a", "y">>, <<"d", "a", "y", "s">>, <<"d">> }

normalizeUnit(s) ==
  LET v == trim(Text(s)) IN
  IF v = <<>> THEN v
  ELSE IF toLowerCase(v) \in HourUnits THEN <<"H", "r", "s">>
  ELSE IF toLowerCase(v) \in DayUnits THEN <<"D", "a", "y">>
  ELSE v

\* encodeURIComponent(nameKey).replace(/%/g, "_") for letters and blanks
RECURSIVE safeDocId(_)
safeDocId(nameKey) ==
  IF nameKey = <<>> THEN <<>>
  ELSE (IF Head(nameKey) = " " THEN <<"_", "2", "0">> ELSE <<Head(nameKey)>>)
         \o safeDocId(Tail(nameKey))

\* the template object that queueSaveManpowerTemplate builds from a row
MakeTemplate(row, t) ==
  [nameKey |-> normalizeKey(trim(Text(row.name))),
   name |-> toTitleCase(trim(Text(row.name))),
   trade |-> toTitleCase(Text(row.trade)),
   unit |-> normalizeUnit(Text(row.unit)),
   regularHours |-> numOr(row.quantity, 0),
   overtime |-> numOr(row.overtime, 0),
   cost |-> IF row.cost # UndefNum THEN numOr(row.cost, 0) ELSE UndefNum,
   updatedAt |-> t]

Debounce == 5

\* clearTimeout(mpSaveTimerRef.current); mpSaveTimerRef.current = setTimeout(..., 500)
keepPendingTimer(timer, template, t) ==
  IF timer.pending THEN timer
  ELSE [pending |-> TRUE, template |-> template, due |-> t + Debounce]

restartTimer(timer, template, t) ==
  [pending |-> TRUE, template |-> template, due |-> t + Debounce]

\* queueSaveManpowerTemplate(row): a row without a name is ignored
queueSaveManpowerTemplate(s, row) ==
  LET template == MakeTemplate(row, now) IN
  /\ mpSaveTimerRef' = [mpSaveTimerRef EXCEPT ![s] =
       IF template.nameKey = <<>> THEN @ ELSE restartTimer(@, template, now)]
  /\ tplLog' = Append(tplLog,
       [kind |-> "call", s |-> s, at |-> now, template |-> template])

\* new Map(mpTemplates.map(t => [t.nameKey, t])).get(nameKey)
RECURSIVE TemplateFor(_, _)
TemplateFor(list, nameKey) ==
  IF list = <<>> THEN NoTemplate
  ELSE IF list[Len(list)].nameKey = nameKey THEN list[Len(list)]
  ELSE TemplateFor(SubSeq(list, 1, Len(list) - 1), nameKey)

\* a text field takes the other value always
fillTextAlways(cur, tplv) == IF tplv # <<>> THEN tplv ELSE cur

\* if (!String(next.f || "").trim() && tpl.f) next.f = tpl.f
fillText(cur, tplv) ==
  IF trim(Text(cur)) = <<>> /\ tplv # <<>> THEN tplv ELSE cur

\* if (!numOr(next.f, 0) && tpl.f !== undefined) next.f = tpl.f
fillNumber(cur, tplv) ==
  IF numOr(cur, 0) = 0 /\ tplv # UndefNum THEN tplv ELSE cur

\* the map callback of applyManpowerTemplate on the matched row
FillFromTemplate(m, tpl) ==
  [m EXCEPT !.trade = fillText(@, tpl.trade),
            !.unit = fillText(@, tpl.unit),
            !.quantity = fillNumber(@, tpl.regularHours),
            !.overtime = fillNumber(@, tpl.overtime),
            !.cost = fillNumber(@, tpl.cost)]

\* applyManpowerTemplate(itemId, rawName) as a function of the list
applyManpowerTemplate(prev, templates, selected, itemId, rawName) ==
  LET nameKey == normalizeKey(rawName)
      tpl == TemplateFor(templates, nameKey)
  IN IF nameKey = <<>> \/ tpl = NoTemplate THEN prev
     ELSE [n \in 1..Len(prev) |->
             IF prev[n].id # selected THEN prev[n]
             ELSE [prev[n] EXCEPT !.manpower =
                     [j \in 1..Len(@) |->
                        IF @[j].id # itemId THEN @[j]
                        ELSE FillFromTemplate(@[j], tpl)]]]

FormUnchanged == UNCHANGED formVars

\* onBlur of the Name input of a manpower row:
\* handleManpowerNameBlur(item.id, item)
handleManpowerNameBlur(s, itemId) ==
  /\ CanDo("edit")
  /\ selectedActivityId[s] \in ActIds(activities[s])
  /\ LET rows == ActById(activities[s], selectedActivityId[s]).manpower IN
     /\ \E j \in 1..Len(rows) : rows[j].id = itemId
     /\ LET row == rows[CHOOSE j \in 1..Len(rows) : rows[j].id = itemId]
            tpl == TemplateFor(mpTemplates[s], normalizeKey(Text(row.name)))
        IN /\ activities' = [activities EXCEPT ![s] =
                applyManpowerTemplate(@, mpTemplates[s], selectedActivityId[s],
                                      itemId, Text(row.name))]
           /\ queueSaveManpowerTemplate(s,
                [row EXCEPT !.name = toTitleCase(Text(row.name)),
                            !.trade = toTitleCase(Text(row.trade)),
                            !.unit = normalizeUnit(Text(row.unit))])
           /\ last' = [op |-> "manpowerNameBlur", s |-> s, pre |-> activities[s],
                       itemId |-> itemId, row |-> row, tpl |-> tpl]
  /\ Did("edit")
  /\ UNCHANGED <<docs, memDoc, localReports, legacyApp, date, reportId,
                 selectedActivityId, resourceMemory, existingReport, loading,
                 blur, save, copy>>
  /\ UNCHANGED <<tplDocs, mpTemplates, now>>
  /\ AppUnchanged
  /\ Handled /\ AuthUnchanged

\* onBlur of the Trade, Regular Hrs, Overtime, Unit, Cost or Notes input of
\* a manpower row: queueSaveManpowerTemplate(item)
handleManpowerFieldBlur(s, itemId) ==
  /\ CanDo("edit")
  /\ selectedActivityId[s] \in ActIds(activities[s])
  /\ LET rows == ActById(activities[s], selectedActivityId[s]).manpower IN
     /\ \E j \in 1..Len(rows) : rows[j].id = itemId
     /\ LET row == rows[CHOOSE j \in 1..Len(rows) : rows[j].id = itemId]
        IN /\ queueSaveManpowerTemplate(s, row)
           /\ last' = [op |-> "manpowerFieldBlur", s |-> s, pre |-> activities[s],
                       itemId |-> itemId, row |-> row]
  /\ Did("edit")
  /\ FormUnchanged
  /\ UNCHANGED <<tplDocs, mpTemplates, now>>
  /\ AppUnchanged
  /\ Handled /\ AuthUnchanged

\* time passes; a timer runs when its 500 ms are over, before anything later
Tick ==
  /\ now < MaxTime
  /\ \A s \in Sessions :
       mpSaveTimerRef[s].pending => mpSaveTimerRef[s].due > now
  /\ now' = now + 1
  /\ last' = [op |-> "tick"]
  /\ FormUnchanged
  /\ UNCHANGED <<ops, tplDocs, mpTemplates, mpSaveTimerRef, tplLog>>
  /\ AppUnchanged
  /\ Handled /\ AuthUnchanged

\* the timer callback of queueSaveManpowerTemplate: setDoc(ref, template,
\* { merge: true }) and, when the write is accepted, the local list gets the
\* template in front; a rejected write is caught and nothing else happens
TemplateTimerFire(s, ok) ==
  /\ mpSaveTimerRef[s].pending
  /\ mpSaveTimerRef[s].due <= now
  /\ LET template == mpSaveTimerRef[s].template
         docId == safeDocId(template.nameKey)
     IN /\ IF ok
             THEN /\ tplDocs' = MapPut(tplDocs, docId,
                        IF docId \in DOMAIN tplDocs
                          THEN setDocMerge(tplDocs[docId], template)
                          ELSE template)
                  /\ mpTemplates' = [mpTemplates EXCEPT ![s] =
                        LET list == <<template>> \o
                              SelectSeq(@, LAMBDA t : t.nameKey # template.nameKey)
                        IN SubSeq(list, 1, IF Len(list) > 50 THEN 50 ELSE Len(list))]
             ELSE UNCHANGED <<tplDocs, mpTemplates>>
        /\ tplLog' = Append(tplLog,
             [kind |-> "write", s |-> s, at |-> now, template |-> template])
        /\ last' = [op |-> "templateWrite", s |-> s, template |-> template]
  /\ mpSaveTimerRef' = [mpSaveTimerRef EXCEPT ![s] = NoTimer]
  /\ FormUnchanged
  /\ UNCHANGED <<ops, now>>
  /\ AppUnchanged
  /\ Handled /\ AuthUnchanged

\* the documents of the collection by updatedAt, latest first
RECURSIVE ByUpdatedAtDesc(_, _)
ByUpdatedAtDesc(store, ids) ==
  IF ids = {} THEN <<>>
  ELSE LET top == CHOOSE i \in ids :
                    \A j \in ids : store[j].updatedAt <= store[i].updatedAt
       IN <<top>> \o ByUpdatedAtDesc(store, ids \ {top})

\* the list that the template load effect builds from the collection; the
\* documents hold the name they were saved with
LoadTemplates(store) ==
  LET ids == ByUpdatedAtDesc(store, DOMAIN store)
      first == SubSeq(ids, 1, IF Len(ids) > 50 THEN 50 ELSE Len(ids))
      list == [i \in 1..Len(first) |->
                 LET data == store[first[i]]
                     name == trim(Text(data.name))
                 IN [nameKey |-> normalizeKey(name), name |-> name,
                     trade |-> Text(data.trade), unit |-> Text(data.unit),
                     regularHours |-> numOr(data.regularHours, 0),
                     overtime |-> numOr(data.overtime, 0),
                     cost |-> IF data.cost # UndefNum
                                THEN numOr(data.cost, 0) ELSE UndefNum,
                     updatedAt |-> numOr(data.updatedAt, 0)]]
  IN SelectSeq(list, LAMBDA t : t.nameKey # <<>> /\ t.name # <<>>)

\* what the user types into the Name input of a manpower row
Tam == <<"t", "a", "m">>
TypedNames == { <<>>, Tam, <<" ", "T", "A", "M", " ">> }
\* into the Trade and Unit inputs
TypedTexts == { <<>>, <<" ">>, <<"h", "r">>, <<"k", "g">> }
\* into the number inputs; clearing one gives NaN
TypedNumbers == { NaN, 0, 8 }

\* ------------------------------------------------------------------------
\* Dates: new Date('YYYY-MM-DD') is midnight UTC of that day. getTime() is
\* kept in seconds instead of milliseconds, every time here being a whole
\* number of seconds.
\* ------------------------------------------------------------------------
NoDate == 0 - 1
DaySeconds == 86400

IsLeap(y) == (y % 4 = 0 /\ y % 100 # 0) \/ y % 400 = 0

DaysInMonth(y, m) ==
  IF m = 2 THEN (IF IsLeap(y) THEN 29 ELSE 28)
  ELSE IF m \in {4, 6, 9, 11} THEN 30 ELSE 31

AllDigits(s) == \A i \in 1..Len(s) : s[i] \in Digits

\* the year, month and day of a text of the form YYYY-MM-DD
DateYear(s) == parseInt(SubSeq(s, 1, 4))
DateMonth(s) == parseInt(SubSeq(s, 6, 7))
DateDay(s) == parseInt(SubSeq(s, 9, 10))

IsDateText(s) ==
  /\ Len(s) = 10
  /\ s[5] = "-" /\ s[8] = "-"
  /\ AllDigits(SubSeq(s, 1, 4)) /\ AllDigits(SubSeq(s, 6, 7))
  /\ AllDigits(SubSeq(s, 9, 10))
  /\ DateMonth(s) \in 1..12
  /\ DateDay(s) \in 1..DaysInMonth(DateYear(s), DateMonth(s))

\* days from 1970-01-01 to y-m-d in the proleptic Gregorian calendar
DaysFromCivil(y, m, d) ==
  LET yy == IF m <= 2 THEN y - 1 ELSE y
      era == yy \div 400
      yoe == yy - era * 400
      mp == IF m > 2 THEN m - 3 ELSE m + 9
      doy == (153 * mp + 2) \div 5 + d - 1
      doe == yoe * 365 + yoe \div 4 - yoe \div 100 + doy
  IN era * 146097 + doe - 719468

\* new Date(s).getTime(), NoDate for an invalid date
getTime(s) ==
  IF IsDateText(s)
    THEN DaysFromCivil(DateYear(s), DateMonth(s), DateDay(s)) * DaySeconds
    ELSE NoDate

\* toDate / parseDateSafely: null for no text and for an invalid date
toDate(s) == IF s = <<>> \/ s = Undef THEN NoDate ELSE getTime(s)

\* Math.round(a / b) for b > 0: halves go up
RoundDiv(a, b) == (2 * a + b) \div (2 * b)

\* [...reports].sort by date, ascending or descending; the sort is stable
RECURSIVE InsertByDate(_, _, _)
InsertByDate(sorted, r, ascending) ==
  IF sorted = <<>> THEN <<r>>
  ELSE LET h == Head(sorted)
           before == IF ascending THEN getTime(h.date) <= getTime(r.date)
                                  ELSE getTime(h.date) >= getTime(r.date)
       IN IF before THEN <<h>> \o InsertByDate(Tail(sorted), r, ascending)
                    ELSE <<r>> \o sorted

RECURSIVE SortByDate(_, _)
SortByDate(list, ascending) ==
  IF list = <<>> THEN <<>>
  ELSE InsertByDate(SortByDate(SubSeq(list, 1, Len(list) - 1), ascending),
                    list[Len(list)], ascending)

\* ------------------------------------------------------------------------
\* The views over the App's report list: CSV export of the History view
\* (exportFullEntryFormCSV) and of the Milestones view
\* (StorageService.exportToCSV)
\* ------------------------------------------------------------------------
Quote == "\""
Comma == ","
Newline == "\n"
CarriageReturn == "\r"
\* the byte order mark, one character
BOM == "FEFF"

\* obj[h] of a record: undefined when the record has no such field
Field(rec, f) == IF f \in DOMAIN rec THEN rec[f] ELSE Undef

\* String(n) of a number
NumText(n) == IF n = NaN THEN <<"N", "a", "N">> ELSE NumToString(n)

\* a number field as the text String(val) gives, undefined kept
NumField2Text(rec, f) ==
  IF f \notin DOMAIN rec THEN Undef
  ELSE IF rec[f] = UndefNum THEN Undef ELSE NumText(rec[f])

Has(s, chars) == \E i \in 1..Len(s) : s[i] \in chars

\* s.replace(/"/g, '""')
RECURSIVE DoubleQuotes(_)
DoubleQuotes(s) ==
  IF s = <<>> THEN <<>>
  ELSE (IF Head(s) = Quote THEN <<Quote, Quote>> ELSE <<Head(s)>>)
         \o DoubleQuotes(Tail(s))

\* escapeCSV of exportFullEntryFormCSV
escapeCSV(val) ==
  IF val = Undef THEN <<>>
  ELSE IF Has(val, {Quote, Comma, Newline, CarriageReturn})
         THEN <<Quote>> \o DoubleQuotes(val) \o <<Quote>>
         ELSE val

\* what String.prototype.trim and Number() strip at both ends
WhiteSpace == {" ", Newline, CarriageReturn}

RECURSIVE StripLeft(_)
StripLeft(s) ==
  IF s # <<>> /\ Head(s) \in WhiteSpace THEN StripLeft(Tail(s)) ELSE s

RECURSIVE StripRight(_)
StripRight(s) ==
  IF s # <<>> /\ s[Len(s)] \in WhiteSpace
    THEN StripRight(SubSeq(s, 1, Len(s) - 1)) ELSE s

Strip(s) == StripRight(StripLeft(s))

\* !isNaN(val) for a text of the letters, digits and marks used here: the
\* text is a run of digits once the white space around it is taken off,
\* or it is nothing but white space (Number gives 0)
NotNaN(s) == \A i \in 1..Len(Strip(s)) : Strip(s)[i] \in Digits

\* the function c of exportToCSV; isText tells a text field from a number field
csvCell(val, isText) ==
  IF val = Undef THEN <<>>
  ELSE IF (~ isText \/ NotNaN(val)) /\ Strip(val) # <<>> THEN val
  ELSE IF Has(val, {Comma, Quote, Newline})
         THEN <<Quote>> \o DoubleQuotes(val) \o <<Quote>>
         ELSE val

\* cells.join(sep)
RECURSIVE Join(_, _)
Join(cells, sep) ==
  IF cells = <<>> THEN <<>>
  ELSE IF Len(cells) = 1 THEN cells[1]
  ELSE cells[1] \o <<sep>> \o Join(Tail(cells), sep)

\* a || '' , and a ? 'YES' : 'NO' with the answer kept as one symbol
OrEmpty(v) == IF v = Undef THEN <<>> ELSE v
YesNo(rec) == IF "isMilestone" \in DOMAIN rec /\ rec.isMilestone
                THEN <<"YES">> ELSE <<"NO">>

\* the header names of exportFullEntryFormCSV, each kept as one symbol
FullHeaders ==
  << "ReportDate", "ReportId", "ActivityUID", "ActivityId", "RefCode",
     "ActivityName", "Category", "Supervisor", "WorkArea", "StationGrid",
     "DetailedProgressNotes", "IsMilestone", "PlannedStart", "PlannedFinish",
     "ActualStart", "ActualFinish", "PlannedQuantity", "ActualQuantity",
     "QuantityUnit", "PlannedCompletionPercent", "EntryType", "EntryId",
     "EntryCode", "EntryNameOrDesc", "Trade", "Company", "Quantity", "Unit",
     "Overtime", "Cost", "Comments", "RiskLikelihood", "RiskImpact",
     "RiskStatus", "RiskMitigation" >>

FullColumn(h) == CHOOSE i \in 1..Len(FullHeaders) : FullHeaders[i] = h

\* const base = { ... } of one activity of one report
FullBase(report, a) ==
  [ReportDate |-> report.date, ReportId |-> report.id,
   ActivityUID |-> a.id, ActivityId |-> a.activityId,
   RefCode |-> OrEmpty(Field(a, "referenceCode")),
   ActivityName |-> OrEmpty(Field(a, "description")),
   Category |-> OrEmpty(Field(a, "workCategory")),
   Supervisor |-> OrEmpty(Field(a, "responsiblePerson")),
   WorkArea |-> OrEmpty(Field(a, "workArea")),
   StationGrid |-> OrEmpty(Field(a, "stationGrid")),
   DetailedProgressNotes |-> OrEmpty(Field(a, "detailedDescription")),
   IsMilestone |-> YesNo(a),
   PlannedStart |-> OrEmpty(Field(a, "plannedStart")),
   PlannedFinish |-> OrEmpty(Field(a, "plannedFinish")),
   ActualStart |-> OrEmpty(Field(a, "actualStart")),
   ActualFinish |-> OrEmpty(Field(a, "actualFinish")),
   PlannedQuantity |-> OrEmpty(NumField2Text(a, "plannedQuantity")),
   ActualQuantity |-> OrEmpty(NumField2Text(a, "actualQuantity")),
   QuantityUnit |-> OrEmpty(Field(a, "quantityUnit")),
   PlannedCompletionPercent |-> OrEmpty(NumField2Text(a, "plannedCompletion"))]

\* the entry fields that pushRow adds to base for a row of one category
FullEntry(tag, m) ==
  IF tag = "ACTIVITY" THEN [EntryType |-> <<tag>>]
  ELSE IF tag = "RISK"
    THEN [EntryType |-> <<tag>>, EntryId |-> m.id, EntryCode |-> m.code,
          EntryNameOrDesc |-> m.description,
          RiskLikelihood |-> m.likelihood, RiskImpact |-> m.impact,
          RiskStatus |-> m.status, RiskMitigation |-> m.mitigation]
    ELSE [EntryType |-> <<tag>>, EntryId |-> m.id, EntryCode |-> m.code,
          EntryNameOrDesc |-> m.name,
          Trade |-> IF tag = "MANPOWER" THEN Field(m, "trade") ELSE Undef,
          Company |-> IF tag = "SUBCONTRACTOR" THEN Field(m, "company") ELSE Undef,
          Quantity |-> NumField2Text(m, "quantity"), Unit |-> m.unit,
          Overtime |-> IF tag = "MANPOWER"
                         THEN NumField2Text(m, "overtime") ELSE Undef,
          Cost |-> NumField2Text(m, "cost"), Comments |-> Field(m, "comments")]

\* pushRow({ ...base, ...entry })
FullRow(base, entry) ==
  [i \in 1..Len(FullHeaders) |->
     escapeCSV(IF FullHeaders[i] \in DOMAIN entry THEN entry[FullHeaders[i]]
               ELSE Field(base, FullHeaders[i]))]

FullRowsOf(base, tag, items) ==
  [j \in 1..Len(items) |-> FullRow(base, FullEntry(tag, items[j]))]

FullRowsOfActivity(report, a) ==
  LET base == FullBase(report, a) IN
  <<FullRow(base, FullEntry("ACTIVITY", <<>>))>>
    \o FullRowsOf(base, "MANPOWER", a.manpower)
    \o FullRowsOf(base, "MATERIAL", a.material)
    \o FullRowsOf(base, "EQUIPMENT", a.equipment)
    \o FullRowsOf(base, "SUBCONTRACTOR", a.subcontractor)
    \o FullRowsOf(base, "RISK", a.risks)

\* seqs[1] \o seqs[2] \o ...
RECURSIVE Flatten(_)
Flatten(seqs) == IF seqs = <<>> THEN <<>> ELSE Head(seqs) \o Flatten(Tail(seqs))

\* exportFullEntryFormCSV(reports): the rows, and the text of the file
FullRows(list) ==
  LET sorted == SortByDate(list, FALSE) IN
  Flatten([i \in 1..Len(sorted) |->
     Flatten([k \in 1..Len(sorted[i].activities) |->
        FullRowsOfActivity(sorted[i], sorted[i].activities[k])])])

CsvText(headers, rows) ==
  Join(<<Join([i \in 1..Len(headers) |-> <<headers[i]>>], Comma)>>
         \o [i \in 1..Len(rows) |-> Join(rows[i], Comma)],
       Newline)

exportFullEntryFormCSV(list) == <<BOM>> \o CsvText(FullHeaders, FullRows(list))

\* the header names of StorageService.exportToCSV, each kept as one symbol
LegacyHeaders ==
  << "Activity ID", "Date", "Reference Code", "Activity Name",
     "Work Category", "Detailed Description", "Responsible Person",
     "Completion %", "Work Area", "Station/Grid", "Planned Start",
     "Planned Finish", "Actual Start", "Actual Finish",
     "Manpower Code", "Manpower Name", "Manpower Trade", "Manpower Hrs",
     "Manpower OT", "Manpower Unit", "Manpower Cost", "Manpower Notes",
     "Material Code", "Material Name", "Material Qty", "Material Unit",
     "Material Cost", "Material Notes",
     "Equipment Code", "Equipment Name", "Equipment Hrs", "Equipment Unit",
     "Equipment Cost", "Equipment Notes",
     "Subcontractor Code", "Subcontractor Service", "Subcontractor Company",
     "Subcontractor Qty", "Subcontractor Unit", "Subcontractor Cost",
     "Subcontractor Notes",
     "Risk ID", "Risk Description", "Risk Likelihood", "Risk Impact",
     "Risk Status", "Risk Mitigation", "Is Milestone" >>

LegacyColumn(h) == CHOOSE i \in 1..Len(LegacyHeaders) : LegacyHeaders[i] = h

\* c(x.f) for a text field and for a number field
TextCell(rec, f) == csvCell(Field(rec, f), TRUE)
NumCell(rec, f) == csvCell(NumField2Text(rec, f), FALSE)

\* list?.length > 0 ? list : [{}] , then list[i] || {}
ItemAt(list, i) == IF i <= Len(list) THEN list[i] ELSE <<>>
LengthOrOne(list) == IF Len(list) > 0 THEN Len(list) ELSE 1

Max2(a, b) == IF a >= b THEN a ELSE b

maxResources(a) ==
  Max2(LengthOrOne(a.manpower),
    Max2(LengthOrOne(a.material),
      Max2(LengthOrOne(a.equipment),
        Max2(LengthOrOne(a.subcontractor), LengthOrOne(a.risks)))))

\* the cells of a resource item, with trade and overtime for manpower and
\* company for a subcontractor
LegacyItemCells(tag, m) ==
  <<TextCell(m, "code"), TextCell(m, "name")>>
    \o (IF tag = "manpower" THEN <<TextCell(m, "trade")>>
        ELSE IF tag = "subcontractor" THEN <<TextCell(m, "company")>>
        ELSE <<>>)
    \o <<NumCell(m, "quantity")>>
    \o (IF tag = "manpower" THEN <<NumCell(m, "overtime")>> ELSE <<>>)
    \o <<TextCell(m, "unit"), NumCell(m, "cost"), TextCell(m, "comments")>>

LegacyRow(report, a, i) ==
  << TextCell(a, "activityId"), TextCell(report, "date"),
     TextCell(a, "referenceCode"), TextCell(a, "description"),
     TextCell(a, "workCategory"), TextCell(a, "detailedDescription"),
     TextCell(a, "responsiblePerson"), NumCell(a, "plannedCompletion"),
     TextCell(a, "workArea"), TextCell(a, "stationGrid"),
     TextCell(a, "plannedStart"), TextCell(a, "plannedFinish"),
     TextCell(a, "actualStart"), TextCell(a, "actualFinish") >>
    \o LegacyItemCells("manpower", ItemAt(a.manpower, i))
    \o LegacyItemCells("material", ItemAt(a.material, i))
    \o LegacyItemCells("equipment", ItemAt(a.equipment, i))
    \o LegacyItemCells("subcontractor", ItemAt(a.subcontractor, i))
    \o (LET risk == ItemAt(a.risks, i) IN
        << TextCell(risk, "code"), TextCell(risk, "description"),
           TextCell(risk, "likelihood"), TextCell(risk, "impact"),
           TextCell(risk, "status"), TextCell(risk, "mitigation") >>)
    \o << csvCell(YesNo(a), TRUE) >>

LegacyRows(list) ==
  Flatten([r \in 1..Len(list) |->
     Flatten([k \in 1..Len(list[r].activities) |->
        LET a == list[r].activities[k] IN
        [i \in 1..maxResources(a) |-> LegacyRow(list[r], a, i)]])])

\* StorageService.exportToCSV(reports): the text of the file
exportToCSV(list) == CsvText(LegacyHeaders, LegacyRows(list))

\* ------------------------------------------------------------------------
\* Reading a CSV file back (RFC 4180): a line break or a comma inside a
\* quoted cell belongs to the cell, one outside of quotes ends the row or
\* the cell
\* ------------------------------------------------------------------------
\* position i of the text lies outside of quotes
Unquoted(text, i) ==
  Cardinality({j \in 1..(i - 1) : text[j] = Quote}) % 2 = 0

\* the positions at which sep separates, in increasing order, then Len + 1
RECURSIVE Ascending(_)
Ascending(set) ==
  IF set = {} THEN <<>>
  ELSE LET lo == CHOOSE x \in set : \A y \in set : x <= y
       IN <<lo>> \o Ascending(set \ {lo})

SplitOutsideQuotes(text, sep) ==
  LET cuts == Ascending({i \in 1..Len(text) : text[i] = sep /\ Unquoted(text, i)})
                \o <<Len(text) + 1>>
  IN [n \in 1..Len(cuts) |->
        SubSeq(text, IF n = 1 THEN 1 ELSE cuts[n - 1] + 1, cuts[n] - 1)]

\* "" inside a quoted cell stands for one "
RECURSIVE HalveQuotes(_)
HalveQuotes(s) ==
  IF s = <<>> THEN <<>>
  ELSE IF Len(s) >= 2 /\ s[1] = Quote /\ s[2] = Quote
         THEN <<Quote>> \o HalveQuotes(SubSeq(s, 3, Len(s)))
         ELSE <<Head(s)>> \o HalveQuotes(Tail(s))

ReadCell(cell) ==
  IF Len(cell) >= 2 /\ cell[1] = Quote /\ cell[Len(cell)] = Quote
    THEN HalveQuotes(SubSeq(cell, 2, Len(cell) - 1))
    ELSE cell

\* the rows of the file after the header row, each a sequence of cells
ReadCsv(text) ==
  LET lines == SplitOutsideQuotes(text, Newline)
  IN [n \in 1..(Len(lines) - 1) |->
        LET cells == SplitOutsideQuotes(lines[n + 1], Comma)
        IN [k \in 1..Len(cells) |-> ReadCell(cells[k])]]

\* the Download button of the History view and of the Milestones view
ExportHistory ==
  /\ csvFile' = [by |-> "History", text |-> exportFullEntryFormCSV(appReports)]
  /\ last' = [op |-> "exportHistory"]
  /\ FormUnchanged /\ TemplatesUnchanged /\ Handled /\ AuthUnchanged
  /\ UNCHANGED <<ops, appReports, schedule, uniqueActivities, chat, dashboard,
                 planAct, asOnDate, formula, chartData>>

handleExport ==
  /\ csvFile' = [by |-> "Milestones", text |-> exportToCSV(appReports)]
  /\ last' = [op |-> "handleExport"]
  /\ FormUnchanged /\ TemplatesUnchanged /\ Handled /\ AuthUnchanged
  /\ UNCHANGED <<ops, appReports, schedule, uniqueActivities, chat, dashboard,
                 planAct, asOnDate, formula, chartData>>

\* ------------------------------------------------------------------------
\* The master log of the Milestones view (schedule; the same code is
\* StorageService.getProjectSchedule) and the activities of the duration
\* chart (uniqueActivities): one entry per activityId
\* ------------------------------------------------------------------------
\* a Map as the sequence of its entries in insertion order
\* set that keeps the value a key already has
mapSetIfAbsent(map, key, value) ==
  IF \E i \in 1..Len(map) : map[i].key = key
    THEN map
    ELSE Append(map, [key |-> key, value |-> value])

\* Map.prototype.set: the value of a key that is there is replaced in place
mapSet(map, key, value) ==
  IF \E i \in 1..Len(map) : map[i].key = key
    THEN [i \in 1..Len(map) |->
            IF map[i].key = key THEN [key |-> key, value |-> value] ELSE map[i]]
    ELSE Append(map, [key |-> key, value |-> value])

\* the place of a character in the collation of localeCompare: marks,
\* digits, then letters with the small letter before its capital
Collation ==
  << " ", "-" >> \o << "0", "1", "2", "3", "4", "5", "6", "7", "8", "9" >>
    \o [i \in 1..52 |-> IF i % 2 = 1 THEN LowerLetters[(i + 1) \div 2]
                                     ELSE UpperLetters[i \div 2]]

CollationRank(ch) ==
  IF \E i \in 1..Len(Collation) : Collation[i] = ch
    THEN CHOOSE i \in 1..Len(Collation) : Collation[i] = ch
    ELSE 0

\* a.localeCompare(b) <= 0
RECURSIVE LocaleLeq(_, _)
LocaleLeq(a, b) ==
  IF a = <<>> THEN TRUE
  ELSE IF b = <<>> THEN FALSE
  ELSE IF Head(a) = Head(b) THEN LocaleLeq(Tail(a), Tail(b))
  ELSE CollationRank(Head(a)) <= CollationRank(Head(b))

\* entries.sort((a, b) => a.activityId.localeCompare(b.activityId))
RECURSIVE InsertById(_, _)
InsertById(sorted, entry) ==
  IF sorted = <<>> THEN <<entry>>
  ELSE IF LocaleLeq(Head(sorted).activityId, entry.activityId)
         THEN <<Head(sorted)>> \o InsertById(Tail(sorted), entry)
         ELSE <<entry>> \o sorted

RECURSIVE SortById(_)
SortById(entries) ==
  IF entries = <<>> THEN <<>>
  ELSE InsertById(SortById(SubSeq(entries, 1, Len(entries) - 1)),
                  entries[Len(entries)])

\* the entry that the master log keeps of an activity
MasterEntry(a) ==
  [activityId |-> a.activityId,
   workCategory |-> IF OrEmpty(Field(a, "workCategory")) = <<>>
                      THEN <<"Uncategorized">> ELSE a.workCategory,
   workArea |-> OrEmpty(Field(a, "workArea")),
   stationGrid |-> OrEmpty(Field(a, "stationGrid")),
   activityName |-> Field(a, "description"),
   plannedStart |-> Field(a, "plannedStart"),
   actualStart |-> Field(a, "actualStart"),
   plannedFinish |-> Field(a, "plannedFinish"),
   actualFinish |-> Field(a, "actualFinish")]

\* the entry that the chart keeps: { ...act, reportDate: report.date }
ChartEntry(a, report) ==
  [f \in (DOMAIN a) \cup {"reportDate"} |->
     IF f = "reportDate" THEN report.date ELSE a[f]]

\* the activities of the reports in the order of the two forEach loops,
\* each with its report
RECURSIVE Occurrences(_)
Occurrences(list) ==
  IF list = <<>> THEN <<>>
  ELSE [k \in 1..Len(Head(list).activities) |->
          [a |-> Head(list).activities[k], report |-> Head(list)]]
         \o Occurrences(Tail(list))

\* activityMap after the loops; chart tells the chart's entry from the
\* master log's
RECURSIVE CollectById(_, _, _)
CollectById(map, occs, chart) ==
  IF occs = <<>> THEN map
  ELSE LET a == Head(occs).a
           entry == IF chart THEN ChartEntry(a, Head(occs).report)
                             ELSE MasterEntry(a)
       IN CollectById(IF a.activityId = <<>> THEN map
                      ELSE mapSet(map, a.activityId, entry),
                      Tail(occs), chart)

DedupById(list, chart) ==
  LET map == CollectById(<<>>, Occurrences(SortByDate(list, TRUE)), chart)
  IN SortById([i \in 1..Len(map) |-> map[i].value])

\* the Milestones view and the BarChart view render over the report list
Milestones ==
  /\ schedule' = DedupById(appReports, FALSE)
  /\ last' = [op |-> "Milestones"]
  /\ FormUnchanged /\ TemplatesUnchanged /\ Handled /\ AuthUnchanged
  /\ UNCHANGED <<ops, appReports, csvFile, uniqueActivities, chat, dashboard,
                 planAct, asOnDate, formula, chartData>>

BarChart ==
  /\ uniqueActivities' = DedupById(appReports, TRUE)
  /\ last' = [op |-> "BarChart"]
  /\ FormUnchanged /\ TemplatesUnchanged /\ Handled /\ AuthUnchanged
  /\ UNCHANGED <<ops, appReports, csvFile, schedule, chat, dashboard,
                 planAct, asOnDate, formula, chartData>>

\* ------------------------------------------------------------------------
\* The calendar, day after day, and the report list of the Firestore App:
\* getReports of firestoreService and loadReports of App
\* ------------------------------------------------------------------------
DateText(y, m, d) ==
  padStart(NumToString(y), 4, "0") \o <<"-">> \o padStart(NumToString(m), 2, "0")
    \o <<"-">> \o padStart(NumToString(d), 2, "0")

\* the date n days after y-m-d
RECURSIVE AddDays(_, _, _, _)
AddDays(y, m, d, n) ==
  IF d + n <= DaysInMonth(y, m) THEN DateText(y, m, d + n)
  ELSE IF m < 12 THEN AddDays(y, m + 1, 1, n - (DaysInMonth(y, m) - d + 1))
  ELSE AddDays(y + 1, 1, 1, n - (DaysInMonth(y, m) - d + 1))

\* the n-th day on which the user writes a report
DateOfDay(n) == AddDays(2024, 1, 1, n - 1)

\* limit(50) of the query
Limit == 50

\* the documents of the collection as a list: { id: d.id, ...d.data() }
RECURSIVE DocsOf(_, _)
DocsOf(store, keys) ==
  IF keys = {} THEN <<>>
  ELSE LET k == CHOOSE x \in keys : TRUE
       IN <<[f \in (DOMAIN store[k]) \cup {"id"} |->
               IF f \in DOMAIN store[k] THEN store[k][f] ELSE k]>>
            \o DocsOf(store, keys \ {k})

\* query(reportsRef, orderBy("date", "desc"), limit(50))
getReports(store) ==
  LET all == SortByDate(DocsOf(store, StoredKeys(store)), FALSE)
  IN SubSeq(all, 1, IF Len(all) > Limit THEN Limit ELSE Len(all))

\* loadReports: getReports gives [] when the read rejects
loadReports(ok) ==
  /\ appReports' = IF ok THEN getReports(docs) ELSE <<>>
  /\ last' = [op |-> "loadReports", ok |-> ok]
  /\ FormUnchanged /\ TemplatesUnchanged /\ Handled /\ AuthUnchanged
  /\ UNCHANGED <<ops, csvFile, schedule, uniqueActivities, chat, dashboard,
                 planAct, asOnDate, formula, chartData>>

\* the id that generateId() gave the form opened on day n
ReportIdOfDay(n) == <<"i", "d">> \o NumToString(n)

\* the user writes and saves the report of the next day (handleSave of the
\* form opened on that date, nothing entered)
SaveReportOfDay(n) ==
  /\ n <= MaxSaved
  /\ n = Cardinality(StoredKeys(docs)) + 1
  /\ docs' = saveReport(docs, [id |-> ReportIdOfDay(n), date |-> DateOfDay(n),
                               activities |-> <<>>])
  /\ last' = [op |-> "saveDone", s |-> "s1", day |-> n]
  /\ TemplatesUnchanged /\ AppUnchanged /\ Handled /\ AuthUnchanged
  /\ UNCHANGED <<memDoc, localReports, legacyApp, date, reportId, activities,
                 selectedActivityId, resourceMemory, existingReport, loading,
                 blur, save, copy, ops>>

\* ------------------------------------------------------------------------
\* The legacy local-storage StorageService (part_005) and the App callbacks
\* ------------------------------------------------------------------------
\* reports.findIndex(r => r.id === report.id || r.date === report.date)
FindIndex(reports, report) ==
  IF \E i \in 1..Len(reports) :
       reports[i].id = report.id \/ reports[i].date = report.date
    THEN CHOOSE i \in 1..Len(reports) :
           /\ (reports[i].id = report.id \/ reports[i].date = report.date)
           /\ \A j \in 1..(i - 1) :
                 ~(reports[j].id = report.id \/ reports[j].date = report.date)
    ELSE 0

\* StorageService.saveReport of part_005: replace the first match or push
LocalSaveReport(reports, report) ==
  LET existingIndex == FindIndex(reports, report) IN
  IF existingIndex > 0
    THEN [reports EXCEPT ![existingIndex] = report]
    ELSE Append(reports, report)

\* setDoc(ref, mem, { merge: true }) on resourceMemory/main: nested maps
\* are merged key by key
MergeMemory(old, new) ==
  [c \in MemCategories |->
     [code \in (DOMAIN old[c]) \cup (DOMAIN new[c]) |->
        IF code \in DOMAIN new[c]
          THEN IF code \in DOMAIN old[c]
                 THEN setDocMerge(old[c][code], new[c][code])
                 ELSE new[c][code]
          ELSE old[c][code]]]

\* ------------------------------------------------------------------------
\* handleSave (EntryForm.tsx 825-841) and onSave (App.tsx 76-80, 299-310)
\* ------------------------------------------------------------------------
\* the synchronous part, up to the await of saveResourceMemory
SaveStart(s) ==
  /\ CanDo("save")
  /\ save[s].pc = "idle"
  /\ LET report == [id |-> reportId[s], date |-> date[s],
                    activities |-> activities[s]]
         newMemory == RememberActivities(resourceMemory[s], activities[s])
     IN /\ resourceMemory' = [resourceMemory EXCEPT ![s] = newMemory]
        /\ save' = [save EXCEPT ![s] =
             [pc |-> "memWrite", report |-> report, newMemory |-> newMemory]]
  /\ Did("save")
  /\ last' = [op |-> "saveStart", s |-> s, pre |-> activities[s]]
  /\ StoreUnchanged
  /\ UNCHANGED <<date, reportId, activities, selectedActivityId,
                 existingReport, loading, blur, copy>>
  /\ TemplatesUnchanged
  /\ AppUnchanged
  /\ Handled /\ AuthUnchanged

\* saveResourceMemory resolves
SaveMemWrite(s) ==
  /\ save[s].pc = "memWrite"
  /\ memDoc' = MergeMemory(memDoc, save[s].newMemory)
  /\ save' = [save EXCEPT ![s].pc = "reportWrite"]
  /\ last' = [op |-> "saveMemWrite", s |-> s]
  /\ UNCHANGED <<docs, localReports, legacyApp>>
  /\ UNCHANGED <<date, reportId, activities, selectedActivityId,
                 resourceMemory, existingReport, loading, blur, copy, ops>>
  /\ TemplatesUnchanged
  /\ AppUnchanged
  /\ Handled /\ AuthUnchanged

\* saveReport resolves and onSave(report) runs. The legacy App stores the
\* report in localStorage and hands it back as existingReport, whose effects
\* set the date and the form to it; the Firestore App clears editingReport,
\* which restarts the load when a report was being edited.
SaveReportWrite(s) ==
  /\ save[s].pc = "reportWrite"
  /\ LET report == save[s].report IN
     /\ docs' = saveReport(docs, report)
     /\ IF legacyApp
          THEN /\ localReports' = [localReports EXCEPT
                     ![s] = LocalSaveReport(@, report)]
               /\ existingReport' = [existingReport EXCEPT ![s] = report]
               /\ IF existingReport[s] # report \/ date[s] # report.date
                    THEN /\ date' = [date EXCEPT ![s] = report.date]
                         /\ reportId' = [reportId EXCEPT ![s] = report.id]
                         /\ activities' = [activities EXCEPT ![s] = report.activities]
                         /\ selectedActivityId' =
                              [selectedActivityId EXCEPT ![s] = Null]
                         /\ loading' = [loading EXCEPT ![s] = FALSE]
                    ELSE UNCHANGED <<date, reportId, activities,
                                     selectedActivityId, loading>>
          ELSE /\ existingReport' = [existingReport EXCEPT ![s] = NoReport]
               /\ loading' = [loading EXCEPT
                     ![s] = IF existingReport[s] # NoReport THEN TRUE ELSE @]
               /\ UNCHANGED <<localReports, date, reportId, activities,
                              selectedActivityId>>
     /\ last' = [op |-> "saveDone", s |-> s, report |-> report,
                 docsBefore |-> docs, localBefore |-> localReports[s]]
  /\ save' = [save EXCEPT ![s] = Idle]
  /\ UNCHANGED <<memDoc, legacyApp, resourceMemory, blur, copy, ops>>
  /\ TemplatesUnchanged
  /\ AppUnchanged
  /\ Handled /\ AuthUnchanged

\* a write of handleSave rejects: handleSave has no catch, the rest is skipped
SaveReject(s) ==
  /\ save[s].pc \in {"memWrite", "reportWrite"}
  /\ save' = [save EXCEPT ![s] = Idle]
  /\ last' = [op |-> "saveReject", s |-> s]
  /\ StoreUnchanged
  /\ UNCHANGED <<date, reportId, activities, selectedActivityId,
                 resourceMemory, existingReport, loading, blur, copy, ops>>
  /\ TemplatesUnchanged
  /\ AppUnchanged
  /\ unhandled' = TRUE
  /\ UNCHANGED memLoad
  /\ AuthUnchanged

\* ------------------------------------------------------------------------
\* handleCopyReport (EntryForm.tsx 843-849)
\* ------------------------------------------------------------------------
CopyStart(s, copyTargetDate) ==
  /\ CanDo("save")
  /\ copy[s].pc = "idle"
  /\ HasFresh(UsedReportIds)
  /\ copy' = [copy EXCEPT ![s] =
       [pc |-> "write",
        report |-> [id |-> generateId(UsedReportIds), date |-> copyTargetDate,
                    activities |-> activities[s]]]]
  /\ Did("save")
  /\ last' = [op |-> "copyStart", s |-> s]
  /\ StoreUnchanged
  /\ UNCHANGED <<date, reportId, activities, selectedActivityId,
                 resourceMemory, existingReport, loading, blur, save>>
  /\ TemplatesUnchanged
  /\ AppUnchanged
  /\ Handled /\ AuthUnchanged

CopyWrite(s) ==
  /\ copy[s].pc = "write"
  /\ docs' = saveReport(docs, copy[s].report)
  /\ copy' = [copy EXCEPT ![s] = Idle]
  /\ last' = [op |-> "copyDone", s |-> s, report |-> copy[s].report,
              docsBefore |-> docs]
  /\ UNCHANGED <<memDoc, localReports, legacyApp>>
  /\ UNCHANGED <<date, reportId, activities, selectedActivityId,
                 resourceMemory, existingReport, loading, blur, save, ops>>
  /\ TemplatesUnchanged
  /\ AppUnchanged
  /\ Handled /\ AuthUnchanged

CopyReject(s) ==
  /\ copy[s].pc = "write"
  /\ copy' = [copy EXCEPT ![s] = Idle]
  /\ last' = [op |-> "copyReject", s |-> s]
  /\ StoreUnchanged
  /\ UNCHANGED <<date, reportId, activities, selectedActivityId,
                 resourceMemory, existingReport, loading, blur, save, ops>>
  /\ TemplatesUnchanged
  /\ AppUnchanged
  /\ unhandled' = TRUE
  /\ UNCHANGED memLoad
  /\ AuthUnchanged

\* ------------------------------------------------------------------------
\* The entry form of one session, driven by its user and the store
\* ------------------------------------------------------------------------
FormNext(s) ==
  \/ \E d \in Dates : SetDate(s, d)
  \/ \E ok \in BOOLEAN : LoadComplete(s, ok)
  \/ addActivity(s)
  \/ deleteSelectedActivity(s)
  \/ \E a, o \in IdPool : handleDragEnd(s, a, o)
  \/ \E a \in IdPool : SelectActivity(s, a)
  \/ \E c \in Categories : EditField(s, c)
  \/ \E v \in TypedIds : TypeActivityId(s, v)
  \/ BlurStart(s)
  \/ \E c \in BOOLEAN : BlurFind(s, c)
  \/ RippleRead(s)
  \/ RippleCommit(s)
  \/ SaveStart(s)
  \/ SaveMemWrite(s)
  \/ SaveReportWrite(s)
  \/ \E d \in Dates : CopyStart(s, d)
  \/ CopyWrite(s)

Next == FormNext("s1")

Spec == Init /\ [][Next]_vars

SaveNext(s) ==
  \/ SaveStart(s)
  \/ SaveMemWrite(s)
  \/ SaveReportWrite(s)

NextStore ==
  \/ \E d \in Dates : SetDate("s1", d)
  \/ \E ok \in BOOLEAN : LoadComplete("s1", ok)
  \/ addActivity("s1")
  \/ SaveNext("s1")
  \/ \E d \in Dates : CopyStart("s1", d)
  \/ CopyWrite("s1")

SpecStore == InitStore /\ [][NextStore]_vars

\* ------------------------------------------------------------------------
\* C1: a user's store holds at most one report per calendar date, in the
\* Firestore collection and in the localStorage list, after any sequence of
\* saves and copies.
\* ------------------------------------------------------------------------
OneReportPerDate ==
  /\ \A k1, k2 \in StoredKeys(docs) :
        docs[k1].date = docs[k2].date => k1 = k2
  /\ \A s \in Sessions : \A i, j \in 1..Len(localReports[s]) :
        localReports[s][i].date = localReports[s][j].date => i = j

\* the entry form alone: the activity list is edited and nothing is saved
InitList ==
  /\ InitForm
  /\ legacyApp = FALSE
  /\ ops = [edit |-> ListOps, save |-> 0, nav |-> 0, total |-> ListOps]

NextList ==
  \/ \E ok \in BOOLEAN : LoadComplete("s1", ok)
  \/ addActivity("s1")
  \/ deleteSelectedActivity("s1")
  \/ \E a, o \in IdPool : handleDragEnd("s1", a, o)
  \/ \E a \in IdPool : SelectActivity("s1", a)
  \/ \E c \in Categories : EditField("s1", c)
  \/ \E v \in TypedIds : TypeActivityId("s1", v)
  \/ BlurStart("s1")
  \/ \E c \in BOOLEAN : BlurFind("s1", c)
  \/ RippleRead("s1")
  \/ addItemToActivity("s1", "manpower")
  \/ \E i \in IdPool, c \in TypedCodes : EditItemCode("s1", "manpower", i, c)
  \/ \E i \in IdPool, v \in StringValues :
        EditItemField("s1", "manpower", i, "unit", v)
  \/ \E i \in IdPool : handleResourceCodeBlur("s1", "manpower", i)

SpecList == InitList /\ [][NextList]_vars

StructuralOps == {"addActivity", "deleteSelectedActivity", "handleDragEnd"}
NonStructuralOps ==
  {"editField", "addItem", "editItemCode", "editItemField", "resourceCodeBlur"}

\* 'ACT-' followed by i zero-padded to 5 digits, written out for i < 10
PositionId(i) == <<"A", "C", "T", "-", "0", "0", "0", "0">> \o <<DigitChar(i)>>

\* ------------------------------------------------------------------------
\* C3: after addActivity, deleteSelectedActivity or a completed drag-reorder
\* the activity at 0-based position i has order i+1 and activityId
\* ACT-<i+1 padded to 5 digits>, whatever the list held before.
\* ------------------------------------------------------------------------
ReindexedAfterStructuralOp ==
  last.op \in StructuralOps =>
    \A i \in 1..Len(activities[last.s]) :
      /\ activities[last.s][i].order = i
      /\ activities[last.s][i].activityId = PositionId(i)

\* a drag-reorder has completed on a list that held an ID that was not the
\* position-based one
DragReindexedManualIds ==
  /\ last.op = "handleDragEnd"
  /\ \E i \in 1..Len(last.pre) : last.pre[i].activityId # PositionId(i)

\* ------------------------------------------------------------------------
\* C4: typed and shifted activity IDs are kept by non-structural edits and
\* are all replaced by the position-based IDs at the next structural edit.
\* ------------------------------------------------------------------------
ManualIdsLastUntilStructuralOp ==
  /\ last.op \in NonStructuralOps =>
       /\ Len(activities[last.s]) = Len(last.pre)
       /\ \A i \in 1..Len(last.pre) :
             activities[last.s][i].activityId = last.pre[i].activityId
  /\ last.op \in StructuralOps =>
       \A i \in 1..Len(activities[last.s]) :
         \A j \in 1..Len(last.pre) :
           /\ last.pre[j].id = activities[last.s][i].id
           /\ last.pre[j].activityId # PositionId(i)
           => activities[last.s][i].activityId # last.pre[j].activityId

\* a structural edit has acted on an activity whose ID had been typed or
\* shifted away from the ID of the position it now has
StructuralOpOnManualId ==
  /\ last.op \in StructuralOps
  /\ \E i \in 1..Len(activities[last.s]) : \E j \in 1..Len(last.pre) :
        /\ last.pre[j].id = activities[last.s][i].id
        /\ last.pre[j].activityId # PositionId(i)
        /\ last.pre[j].activityId # PositionId(j)

\* ------------------------------------------------------------------------
\* The rows of one activity and the smart memory: the form as it is after
\* the load, addActivity, addItemToActivity('manpower') and
\* addRiskToActivity
\* ------------------------------------------------------------------------
InitMem ==
  /\ docs = [k \in DocKeys |-> NoDoc]
  /\ memDoc = emptyResourceMemory
  /\ localReports = [s \in Sessions |-> <<>>]
  /\ legacyApp = FALSE
  /\ date = [s \in Sessions |-> Today]
  /\ reportId = [s \in Sessions |-> IF s = "s1" THEN "1" ELSE "2"]
  /\ activities = [s \in Sessions |->
       IF s = "s1"
         THEN << [NewActivity("1", 1) EXCEPT
                    !.manpower = << NewItem("1", <<"M", "A", "N", "-", "0", "1">>) >>,
                    !.risks = << NewRisk("1", <<"R", "I", "S", "K", "-", "0", "1">>) >>] >>
         ELSE <<>>]
  /\ selectedActivityId = [s \in Sessions |-> IF s = "s1" THEN "1" ELSE Null]
  /\ resourceMemory = [s \in Sessions |-> emptyResourceMemory]
  /\ existingReport = [s \in Sessions |-> NoReport]
  /\ loading = [s \in Sessions |-> s # "s1"]
  /\ blur = [s \in Sessions |-> IdleBlur]
  /\ save = [s \in Sessions |-> Idle]
  /\ copy = [s \in Sessions |-> Idle]
  /\ ops = [edit |-> MemOps, save |-> MemOps, nav |-> 0, total |-> MemOps]
  /\ last = [op |-> "init"]
  /\ InitTemplates
  /\ InitApp

NextMem ==
  \/ \E c \in {"manpower", "risk"}, i \in IdPool, code \in TypedCodes :
        EditItemCode("s1", c, i, code)
  \/ \E i \in IdPool, f \in StringFields, v \in StringValues :
        EditItemField("s1", "manpower", i, f, v)
  \/ \E i \in IdPool, f \in NumberFields, v \in NumberValues :
        EditItemField("s1", "manpower", i, f, v)
  \/ \E i \in IdPool, v \in RiskValues :
        EditItemField("s1", "risk", i, "description", v)
  \/ \E c \in {"manpower", "risk"}, i \in IdPool :
        handleResourceCodeBlur("s1", c, i)
  \/ SaveStart("s1")
  \/ SaveMemWrite("s1")
  \/ SaveReportWrite("s1")

SpecMem == InitMem /\ [][NextMem]_vars

\* ------------------------------------------------------------------------
\* Two sessions of one user, each with its own entry form on the same store
\* ------------------------------------------------------------------------
InitTwo ==
  /\ InitForm
  /\ legacyApp = FALSE
  /\ ops = [edit |-> TwoOps, save |-> TwoOps, nav |-> TwoOps, total |-> TwoOps]

NextTwo ==
  \E s \in Sessions :
    \/ \E d \in Dates : SetDate(s, d)
    \/ \E ok \in BOOLEAN : LoadComplete(s, ok)
    \/ addActivity(s)
    \/ \E c \in Categories : EditField(s, c)
    \/ SaveStart(s)
    \/ SaveMemWrite(s)
    \/ SaveReportWrite(s)

SpecTwo == InitTwo /\ [][NextTwo]_vars

\* ------------------------------------------------------------------------
\* C2: when two sessions save a report for the same date, in any
\* interleaving, no save is refused or held back by what the other session
\* stored, and the stored activities are those of the save that committed
\* last: each commit puts its own activities into the document of its date
\* and nothing but a commit changes a document.
\* ------------------------------------------------------------------------
LastWriteWins ==
  /\ [](\A s \in Sessions :
          save[s].pc = "reportWrite" => ENABLED SaveReportWrite(s))
  /\ [][ /\ \A s \in Sessions :
             (save[s].pc = "reportWrite" /\ save'[s].pc = "idle") =>
               /\ docs'[save[s].report.date].activities = save[s].report.activities
               /\ \A k \in DocKeys \ {save[s].report.date} : docs'[k] = docs[k]
         /\ docs' # docs => last'.op = "saveDone" ]_vars

\* a session has committed a save over the report that the other session
\* stored for the same date with other activities, a save it had started
\* before the other session's commit
SaveOverOtherSession ==
  /\ last.op = "saveDone"
  /\ last.docsBefore[last.report.date] # NoDoc
  /\ last.docsBefore[last.report.date].id # last.report.id
  /\ last.docsBefore[last.report.date].activities # last.report.activities
  /\ docs[last.report.date].activities = last.report.activities
  /\ \E s \in Sessions : save[s].pc # "idle"

\* ------------------------------------------------------------------------
\* Ripple shift (handleActivityIdBlur, rippleShiftActivityIds)
\* ------------------------------------------------------------------------
\* the confirmed shift of handleActivityIdBlur has run to its end
RippleCompleted ==
  \/ last.op = "rippleDone"
  \/ /\ last.op = "blurFind"
     /\ last.conflict /\ last.confirmShift
     /\ ~HasMatch(last.upperId)

\* the stored reports as rippleShiftActivityIds found them
RippleStoreBefore == IF last.op = "rippleDone" THEN last.snaps ELSE last.store

\* nothing was written between the read and the commit of the shift
RippleUndisturbed == last.op = "rippleDone" => last.store = last.snaps

\* the alphabetic prefixes of two IDs agree, letter case aside
SamePrefix(aId, bId) ==
  toUpperCase(LeadingNonDigits(aId)) = toUpperCase(LeadingNonDigits(bId))

\* ------------------------------------------------------------------------
\* C5: after rippleShiftActivityIds(user, X) every stored activity whose
\* prefix matches X's and whose number was >= X's number has its number
\* increased by one, and no stored activity carries the ID X any more.
\* ------------------------------------------------------------------------
RippleShiftFreesTypedId ==
  (RippleCompleted /\ RippleUndisturbed) =>
    /\ \A k \in StoredKeys(RippleStoreBefore) :
         \A i \in 1..Len(RippleStoreBefore[k].activities) :
           LET a == RippleStoreBefore[k].activities[i] IN
           ( /\ HasMatch(last.upperId)
             /\ SamePrefix(a.activityId, last.upperId)
             /\ getNum(a.activityId) >= getNum(last.upperId) )
           => /\ k \in StoredKeys(docs)
              /\ i <= Len(docs[k].activities)
              /\ getNum(docs[k].activities[i].activityId) = getNum(a.activityId) + 1
    /\ \A k \in StoredKeys(docs) :
         \A i \in 1..Len(docs[k].activities) :
           docs[k].activities[i].activityId # last.upperId

\* ------------------------------------------------------------------------
\* C6: a ripple shift for the typed ID X leaves alone every activity whose
\* prefix differs from X's or whose number is below X's, in the stored
\* reports and in the open report's list, and changes nothing but
\* activityId in the others.
\* ------------------------------------------------------------------------
RippleShiftFrame ==
  (RippleCompleted /\ RippleUndisturbed) =>
    /\ \A k \in StoredKeys(RippleStoreBefore) :
         /\ k \in StoredKeys(docs)
         /\ Len(docs[k].activities) = Len(RippleStoreBefore[k].activities)
         /\ \A i \in 1..Len(RippleStoreBefore[k].activities) :
              LET a == RippleStoreBefore[k].activities[i]
                  b == docs[k].activities[i]
              IN /\ [b EXCEPT !.activityId = a.activityId] = a
                 /\ ( \/ ~SamePrefix(a.activityId, last.upperId)
                      \/ getNum(a.activityId) < getNum(last.upperId) ) => b = a
    /\ Len(activities[last.s]) = Len(last.pre)
    /\ \A i \in 1..Len(last.pre) :
         LET a == last.pre[i]
             b == activities[last.s][i]
         IN /\ [b EXCEPT !.activityId = a.activityId] = a
            /\ ( /\ a.id # last.id
                 /\ ( \/ ~SamePrefix(a.activityId, last.upperId)
                      \/ getNum(a.activityId) < getNum(last.upperId) ) ) => b = a

\* ------------------------------------------------------------------------
\* C7: no two distinct activities of the user's stored reports, in one
\* report or in reports of different dates, have the same activityId.
\* ------------------------------------------------------------------------
ActivityIdsUniqueInHistory ==
  \A k1, k2 \in StoredKeys(docs) :
    \A i \in 1..Len(docs[k1].activities) :
      \A j \in 1..Len(docs[k2].activities) :
        docs[k1].activities[i].id # docs[k2].activities[j].id
          => docs[k1].activities[i].activityId # docs[k2].activities[j].activityId

\* ------------------------------------------------------------------------
\* C8: committing a typed activity ID reports a collision only if an
\* activity other than the edited one carries that ID, in a stored report
\* or in the current list; the edited activity's own saved copy is no
\* collision.
\* ------------------------------------------------------------------------
CollisionOnlyWithOtherActivity ==
  (last.op = "blurFind" /\ last.conflict /\ ~last.conflictInCurrent) =>
    \E k \in StoredKeys(last.store) :
      \E i \in 1..Len(last.store[k].activities) :
        /\ last.store[k].activities[i].id # last.id
        /\ toUpperCase(last.store[k].activities[i].activityId) = last.upperId

\* ------------------------------------------------------------------------
\* Smart memory (handleResourceCodeBlur, handleSave)
\* ------------------------------------------------------------------------
\* the row of the last code commit as it is now
CommittedRow ==
  LET rows == RowsOf(ActById(activities[last.s], selectedActivityId[last.s]),
                     last.category)
  IN rows[CHOOSE j \in 1..Len(rows) : rows[j].id = last.itemId]

FilledString(v) == v # <<>> /\ v # Undef
FilledNumber(v) == v > 0

\* ------------------------------------------------------------------------
\* C9: when a resource row's code is committed and a template is remembered
\* for it, every field of the row that was non-empty before the lookup
\* (name, unit, cost, trade, company, quantity, comments) keeps its value.
\* ------------------------------------------------------------------------
FillKeepsNonEmptyFields ==
  ( /\ last.op = "resourceCodeBlur"
    /\ last.category \in EntryCategories
    /\ last.row.code # <<>>
    /\ last.mem # NoTemplate ) =>
    /\ \A f \in {"name", "unit", "trade", "company", "comments"} :
         FilledString(last.row[f]) => CommittedRow[f] = last.row[f]
    /\ \A f \in {"cost", "quantity"} :
         FilledNumber(last.row[f]) => CommittedRow[f] = last.row[f]

\* the rows of a category over all activities of a report, in order
RECURSIVE AllRows(_, _)
AllRows(acts, category) ==
  IF acts = <<>> THEN <<>>
  ELSE RowsOf(Head(acts), category) \o AllRows(Tail(acts), category)

\* the last of the rows that has the code
LastRowWithCode(rows, code) ==
  rows[CHOOSE j \in 1..Len(rows) :
         /\ rows[j].code = code
         /\ \A k \in (j + 1)..Len(rows) : rows[k].code # code]

\* ------------------------------------------------------------------------
\* C10: after handleSave, for every resource or risk row of the saved
\* report with a non-empty code c, in whatever letter case, the lookup of
\* a code commit of c finds a template, and the template holds the
\* attributes of the last saved row with that code.
\* ------------------------------------------------------------------------
SavedCodesAreRemembered ==
  last.op = "saveDone" =>
    \A category \in MemCategories :
      LET rows == AllRows(last.report.activities, category) IN
      \A j \in 1..Len(rows) :
        rows[j].code # <<>> =>
          LET mem == Lookup(resourceMemory[last.s], category, rows[j].code) IN
          /\ mem # NoTemplate
          /\ mem = TemplateOf(category, LastRowWithCode(rows, rows[j].code))

\* ------------------------------------------------------------------------
\* The name templates: two activities with manpower rows, and the template
\* list as the load effect built it from what an earlier visit had saved
\* ------------------------------------------------------------------------
\* the rows from which an earlier visit saved a template
SavedRows ==
  { [NewItem("4", <<"M", "A", "N", "-", "0", "1">>) EXCEPT
       !.name = Tam, !.trade = tr, !.unit = un, !.quantity = q,
       !.overtime = ot, !.cost = c] :
     tr \in { <<>>, <<"m", "a", "t">> }, un \in { <<>>, <<"h", "r">> },
     q \in {0, 4}, ot \in {UndefNum, 2}, c \in {UndefNum, 0, 5} }

ManRow(iid, n) ==
  NewItem(iid, <<"M", "A", "N", "-", "0">> \o <<DigitChar(n)>>)

\* the form with two activities: rows 1 and 2 in the selected one, row 3
\* in the other
InitTplForm ==
  /\ docs = [k \in DocKeys |-> NoDoc]
  /\ memDoc = emptyResourceMemory
  /\ localReports = [s \in Sessions |-> <<>>]
  /\ legacyApp = FALSE
  /\ date = [s \in Sessions |-> Today]
  /\ reportId = [s \in Sessions |-> IF s = "s1" THEN "1" ELSE "2"]
  /\ activities = [s \in Sessions |->
       IF s = "s1"
         THEN << [NewActivity("1", 1) EXCEPT
                    !.manpower = << ManRow("1", 1),
                                    [ManRow("2", 2) EXCEPT !.name = Tam] >>],
                 [NewActivity("2", 2) EXCEPT
                    !.manpower = << [ManRow("3", 1) EXCEPT !.name = Tam] >>] >>
         ELSE <<>>]
  /\ selectedActivityId = [s \in Sessions |-> IF s = "s1" THEN "1" ELSE Null]
  /\ resourceMemory = [s \in Sessions |-> emptyResourceMemory]
  /\ existingReport = [s \in Sessions |-> NoReport]
  /\ loading = [s \in Sessions |-> s # "s1"]
  /\ blur = [s \in Sessions |-> IdleBlur]
  /\ save = [s \in Sessions |-> Idle]
  /\ copy = [s \in Sessions |-> Idle]
  /\ InitApp

InitTpl ==
  /\ InitTplForm
  /\ ops = [edit |-> TplOps, save |-> 0, nav |-> 0, total |-> TplOps]
  /\ last = [op |-> "init"]
  /\ \E saved \in {{}} \cup {{r} : r \in SavedRows} :
       tplDocs = [d \in {safeDocId(normalizeKey(r.name)) : r \in saved} |->
                    MakeTemplate(CHOOSE r \in saved : TRUE, 0)]
  /\ mpTemplates = [s \in Sessions |-> LoadTemplates(tplDocs)]
  /\ mpSaveTimerRef = [s \in Sessions |-> NoTimer]
  /\ now = 0
  /\ tplLog = <<>>

NextTpl ==
  \/ \E i \in {"1", "2"}, v \in TypedNames :
        EditItemField("s1", "manpower", i, "name", v)
  \/ \E i \in {"1", "2"}, f \in {"trade", "unit"}, v \in TypedTexts :
        EditItemField("s1", "manpower", i, f, v)
  \/ \E i \in {"1", "2"}, f \in {"quantity", "overtime", "cost"},
        v \in TypedNumbers :
        EditItemField("s1", "manpower", i, f, v)
  \/ \E i \in {"1", "2"} : handleManpowerNameBlur("s1", i)

SpecTpl == InitTpl /\ [][NextTpl]_vars

\* the field holds something other than blanks
NonBlank(v) == trim(Text(v)) # <<>>

\* ------------------------------------------------------------------------
\* C11: applying a manpower name template changes only fields of the
\* matched row that are empty or zero, among trade, unit, regular hours,
\* overtime and cost; every non-empty field of that row, every other row
\* and every other activity stay as they were.
\* ------------------------------------------------------------------------
TemplateFillsOnlyEmptyFields ==
  last.op = "manpowerNameBlur" =>
    /\ Len(activities[last.s]) = Len(last.pre)
    /\ \A n \in 1..Len(last.pre) :
         LET a == last.pre[n]
             b == activities[last.s][n]
         IN /\ [b EXCEPT !.manpower = a.manpower] = a
            /\ Len(b.manpower) = Len(a.manpower)
            /\ \A j \in 1..Len(a.manpower) :
                 LET m == a.manpower[j]
                     r == b.manpower[j]
                 IN /\ ( a.id # selectedActivityId[last.s]
                         \/ m.id # last.itemId ) => r = m
                    /\ [r EXCEPT !.trade = m.trade, !.unit = m.unit,
                                 !.quantity = m.quantity,
                                 !.overtime = m.overtime,
                                 !.cost = m.cost] = m
                    /\ NonBlank(m.trade) => r.trade = m.trade
                    /\ NonBlank(m.unit) => r.unit = m.unit
                    /\ m.quantity > 0 => r.quantity = m.quantity
                    /\ m.overtime > 0 => r.overtime = m.overtime
                    /\ m.cost > 0 => r.cost = m.cost

\* a template was applied to a row that held a unit other than the
\* template's, and it filled another field of the row
TemplateAppliedToFilledRow ==
  /\ last.op = "manpowerNameBlur"
  /\ last.tpl # NoTemplate
  /\ NonBlank(last.row.unit)
  /\ last.tpl.unit # <<>>
  /\ last.tpl.unit # last.row.unit
  /\ activities[last.s] # last.pre

\* ------------------------------------------------------------------------
\* The debounced template save: the same form, an empty template
\* collection, the clock and the timer
\* ------------------------------------------------------------------------
InitDebounce ==
  /\ InitTplForm
  /\ ops = [edit |-> DebounceOps, save |-> 0, nav |-> 0, total |-> DebounceOps]
  /\ last = [op |-> "init"]
  /\ InitTemplates

NextDebounce ==
  \/ \E i \in {"1", "2"}, v \in {<<>>, Tam} :
        EditItemField("s1", "manpower", i, "name", v)
  \/ \E i \in {"1", "2"}, v \in {8} :
        EditItemField("s1", "manpower", i, "quantity", v)
  \/ \E i \in {"1", "2"} : handleManpowerNameBlur("s1", i)
  \/ \E i \in {"1", "2"} : handleManpowerFieldBlur("s1", i)
  \/ Tick
  \/ \E ok \in BOOLEAN : TemplateTimerFire("s1", ok)

SpecDebounce == InitDebounce /\ [][NextDebounce]_vars

\* the calls of queueSaveManpowerTemplate before entry k of the log, all of
\* them or those with a name only
CallsBefore(k, namedOnly) ==
  { c \in 1..(k - 1) :
      /\ tplLog[c].kind = "call"
      /\ namedOnly => tplLog[c].template.nameKey # <<>> }

LastOf(set) == CHOOSE c \in set : \A d \in set : d <= c

\* write k is the one write of the burst that ends with the last call
\* before it: it carries that call's values, comes Debounce after it, and
\* no other write lies between them
WriteOfLastCall(k, namedOnly) ==
  LET calls == CallsBefore(k, namedOnly) IN
  /\ calls # {}
  /\ tplLog[k].template = tplLog[LastOf(calls)].template
  /\ tplLog[k].at = tplLog[LastOf(calls)].at + Debounce
  /\ \A j \in (LastOf(calls) + 1)..(k - 1) : tplLog[j].kind # "write"

\* call c ended its burst: Debounce has gone by without a further call, and
\* it got its write
BurstWritten(c, namedOnly) ==
  LET later == { d \in (c + 1)..Len(tplLog) :
                   /\ tplLog[d].kind = "call"
                   /\ namedOnly => tplLog[d].template.nameKey # <<>> }
      over == IF later = {}
                THEN now > tplLog[c].at + Debounce
                ELSE \A d \in later : tplLog[d].at > tplLog[c].at + Debounce
  IN over => \E k \in (c + 1)..Len(tplLog) :
                /\ tplLog[k].kind = "write"
                /\ tplLog[k].template = tplLog[c].template
                /\ \A d \in later : k < d

\* ------------------------------------------------------------------------
\* C12 as stated: for any burst of queueSaveManpowerTemplate calls less
\* than 500 ms apart, exactly one store write is performed, 500 ms after
\* the last call of the burst, and it carries the values of that call.
\* ------------------------------------------------------------------------
OneWritePerBurstOfCalls ==
  /\ \A k \in 1..Len(tplLog) :
       tplLog[k].kind = "write" => WriteOfLastCall(k, FALSE)
  /\ \A c \in 1..Len(tplLog) :
       tplLog[c].kind = "call" => BurstWritten(c, FALSE)

\* ------------------------------------------------------------------------
\* C12 amended: a call for a row without a name is ignored, it neither
\* writes nor delays a pending write; for any burst of calls for rows with
\* a name, less than 500 ms apart, exactly one store write is performed,
\* 500 ms after the last of them, and it carries the values of that call.
\* ------------------------------------------------------------------------
OneWritePerBurstOfNamedCalls ==
  /\ \A k \in 1..Len(tplLog) :
       tplLog[k].kind = "write" => WriteOfLastCall(k, TRUE)
  /\ \A c \in 1..Len(tplLog) :
       ( tplLog[c].kind = "call" /\ tplLog[c].template.nameKey # <<>> )
         => BurstWritten(c, TRUE)

\* a burst of two calls with a name and different values, less than 500 ms
\* apart, has been written
BurstOfTwoWritten ==
  \E c1, c2, k \in 1..Len(tplLog) :
    /\ c1 < c2 /\ c2 < k
    /\ tplLog[c1].kind = "call" /\ tplLog[c2].kind = "call"
    /\ tplLog[k].kind = "write"
    /\ tplLog[c1].template.nameKey # <<>>
    /\ tplLog[c2].template.nameKey # <<>>
    /\ tplLog[c1].template # tplLog[c2].template
    /\ tplLog[c2].at < tplLog[c1].at + Debounce
    /\ tplLog[c2].at > tplLog[c1].at

\* ------------------------------------------------------------------------
\* The CSV exports over report lists with notes that hold commas, quotes
\* and line breaks
\* ------------------------------------------------------------------------
\* what the user types into a Site Notes or a description field
Notes ==
  { <<>>, <<"a">>, <<"a", Comma, "b">>, <<Quote, "a", Quote>>,
    <<"a", Newline, "b">>, <<"5", Newline>> }

Day1 == <<"2", "0", "2", "4", "-", "0", "3", "-", "0", "1">>
Day2 == <<"2", "0", "2", "4", "-", "0", "3", "-", "0", "2">>

CsvItem(n, note) ==
  [NewItem(<<"i", DigitChar(n)>>, <<"M", "A", "N", "-", "0", DigitChar(n)>>)
     EXCEPT !.name = Tam, !.quantity = 8, !.comments = note]

CsvRisk(note) ==
  [NewRisk(<<"k", "1">>, <<"R", "I", "S", "K", "-", "0", "1">>)
     EXCEPT !.description = note]

CsvActivity(uid, n, mp, risks) ==
  [NewActivity(uid, n) EXCEPT !.workCategory = <<>>, !.manpower = mp,
                              !.risks = risks]

CsvReportOne ==
  { [id |-> <<"r", "1">>, date |-> Day1,
     activities |-> <<CsvActivity(<<"a", "1">>, 1, mp, risks)>>] :
      mp \in {<<>>} \cup { <<CsvItem(1, n)>> : n \in Notes }
                    \cup { <<CsvItem(1, n[1]), CsvItem(2, n[2])>> :
                             n \in Notes \X Notes },
      risks \in {<<>>} \cup { <<CsvRisk(n)>> : n \in Notes } }

CsvReportTwo ==
  [id |-> <<"r", "2">>, date |-> Day2,
   activities |-> << [CsvActivity(<<"a", "2">>, 2, <<>>, <<>>) EXCEPT
                        !.material = << [CsvItem(3, <<"a">>) EXCEPT
                                           !.cost = 5] >>] >>]

InitCsv ==
  /\ InitEntryForm
  /\ legacyApp = FALSE
  /\ ops = [edit |-> 0, save |-> 0, nav |-> 0, total |-> 0]
  /\ InitAi /\ InitAuth /\ InitPlan /\ InitHandled
  /\ \E r \in CsvReportOne :
       appReports \in { <<r>>, <<r, CsvReportTwo>>, <<CsvReportTwo, r>> }
  /\ csvFile = NoFile
  /\ schedule = <<>>
  /\ uniqueActivities = <<>>

NextCsv == ExportHistory \/ handleExport

SpecCsv == InitCsv /\ [][NextCsv]_vars

\* the line items of the reports: report, activity, category, item
CsvCategories == {"manpower", "material", "equipment", "subcontractor", "risks"}

LineItems ==
  { <<r, k, cat, j>> \in
      (1..Len(appReports)) \X (1..MaxActs) \X CsvCategories \X (1..2) :
      /\ k <= Len(appReports[r].activities)
      /\ j <= Len(appReports[r].activities[k][cat]) }

ItemOf(x) == appReports[x[1]].activities[x[2]][x[3]][x[4]]
ActivityOf(x) == appReports[x[1]].activities[x[2]]

FullTag(cat) ==
  CASE cat = "manpower" -> "MANPOWER" [] cat = "material" -> "MATERIAL"
    [] cat = "equipment" -> "EQUIPMENT"
    [] cat = "subcontractor" -> "SUBCONTRACTOR" [] cat = "risks" -> "RISK"

\* row holds line item x in the file of the History view
FullRowHolds(row, x) ==
  LET m == ItemOf(x) IN
  /\ Len(row) = Len(FullHeaders)
  /\ row[FullColumn("EntryType")] = <<FullTag(x[3])>>
  /\ row[FullColumn("ReportId")] = appReports[x[1]].id
  /\ row[FullColumn("ActivityUID")] = ActivityOf(x).id
  /\ row[FullColumn("EntryId")] = m.id
  /\ row[FullColumn("EntryCode")] = m.code
  /\ IF x[3] = "risks"
       THEN /\ row[FullColumn("EntryNameOrDesc")] = m.description
            /\ row[FullColumn("RiskMitigation")] = m.mitigation
       ELSE /\ row[FullColumn("EntryNameOrDesc")] = m.name
            /\ row[FullColumn("Comments")] = OrEmpty(m.comments)

\* the texts of a line item in the order of its columns in the file of the
\* Milestones view
LegacyTexts(cat, m) ==
  IF cat = "risks"
    THEN << m.code, m.description, m.likelihood, m.impact, m.status,
            m.mitigation >>
    ELSE <<m.code, m.name>>
      \o (IF cat = "manpower" THEN <<OrEmpty(m.trade)>>
          ELSE IF cat = "subcontractor" THEN <<OrEmpty(m.company)>> ELSE <<>>)
      \o <<OrEmpty(NumField2Text(m, "quantity"))>>
      \o (IF cat = "manpower" THEN <<OrEmpty(NumField2Text(m, "overtime"))>>
          ELSE <<>>)
      \o << m.unit, OrEmpty(NumField2Text(m, "cost")), OrEmpty(m.comments) >>

LegacyFirstColumn(cat) ==
  LegacyColumn(CASE cat = "manpower" -> "Manpower Code"
                 [] cat = "material" -> "Material Code"
                 [] cat = "equipment" -> "Equipment Code"
                 [] cat = "subcontractor" -> "Subcontractor Code"
                 [] cat = "risks" -> "Risk ID")

\* row holds line item x in the file of the Milestones view
LegacyRowHolds(row, x) ==
  LET texts == LegacyTexts(x[3], ItemOf(x))
      first == LegacyFirstColumn(x[3])
  IN /\ Len(row) = Len(LegacyHeaders)
     /\ row[1] = ActivityOf(x).activityId
     /\ row[2] = appReports[x[1]].date
     /\ SubSeq(row, first, first + Len(texts) - 1) = texts

\* row carries the activityId (column idCol) and the report date (column
\* dateCol) of an activity of the reports
RowOfAnActivity(row, idCol, dateCol) ==
  /\ Len(row) >= Max2(idCol, dateCol)
  /\ \E r \in 1..Len(appReports) :
       \E k \in 1..Len(appReports[r].activities) :
         /\ row[idCol] = appReports[r].activities[k].activityId
         /\ row[dateCol] = appReports[r].date

HistoryExportSound ==
  csvFile.by = "History" =>
    LET rows == ReadCsv(csvFile.text) IN
    /\ \A x \in LineItems :
         Cardinality({n \in 1..Len(rows) : FullRowHolds(rows[n], x)}) = 1
    /\ \A n \in 1..Len(rows) :
         RowOfAnActivity(rows[n], FullColumn("ActivityId"),
                         FullColumn("ReportDate"))

MilestonesExportSound ==
  csvFile.by = "Milestones" =>
    LET rows == ReadCsv(csvFile.text) IN
    /\ \A x \in LineItems :
         Cardinality({n \in 1..Len(rows) : LegacyRowHolds(rows[n], x)}) = 1
    /\ \A n \in 1..Len(rows) : RowOfAnActivity(rows[n], 1, 2)

\* ------------------------------------------------------------------------
\* C13: in the file of either CSV export every manpower, material,
\* equipment, subcontractor and risk line item of every activity appears in
\* exactly one row, and every row carries the activityId and the report
\* date of an activity of the given reports.
\* ------------------------------------------------------------------------
EveryLineItemInOneCsvRow == HistoryExportSound /\ MilestonesExportSound

\* ------------------------------------------------------------------------
\* The master log and the chart over report lists in every order, with
\* activities that recur from report to report
\* ------------------------------------------------------------------------
Day3 == <<"2", "0", "2", "4", "-", "0", "3", "-", "1", "0">>

SchedActivity(uid, idText, name) ==
  [id |-> uid, activityId |-> idText, order |-> 1, workCategory |-> <<>>,
   description |-> name, plannedStart |-> Day1, plannedFinish |-> Day3,
   manpower |-> <<>>, material |-> <<>>, equipment |-> <<>>,
   subcontractor |-> <<>>, risks |-> <<>>]

\* the activity lists of a report: ACT-00001 under one of two names, alone,
\* with ACT-00002, twice, or an activity whose ID was cleared
SchedActivityLists ==
  { << SchedActivity(<<"a", "1">>, formatActId(1), n) >> :
       n \in { <<"d">>, <<"e">> } }
    \cup { << SchedActivity(<<"a", "2">>, formatActId(2), <<"f">>),
              SchedActivity(<<"a", "1">>, formatActId(1), <<"d">>) >>,
           << SchedActivity(<<"a", "1">>, formatActId(1), <<"d">>),
              SchedActivity(<<"a", "3">>, formatActId(1), <<"e">>) >>,
           << SchedActivity(<<"a", "4">>, <<>>, <<"g">>) >> }

SchedReports ==
  { [id |-> d, date |-> d, activities |-> acts] :
      d \in {Day1, Day2, Day3}, acts \in SchedActivityLists }

InitSchedule ==
  /\ InitEntryForm
  /\ legacyApp = FALSE
  /\ ops = [edit |-> 0, save |-> 0, nav |-> 0, total |-> 0]
  /\ InitAi /\ InitAuth /\ InitPlan /\ InitHandled
  /\ \E n \in 1..MaxReports : appReports \in [1..n -> SchedReports]
  /\ csvFile = NoFile
  /\ schedule = <<>>
  /\ uniqueActivities = <<>>

NextSchedule == Milestones \/ BarChart

SpecSchedule == InitSchedule /\ [][NextSchedule]_vars

\* the activityIds that occur in the reports, the empty one left out
OccurringIds ==
  UNION { { appReports[r].activities[k].activityId :
              k \in 1..Len(appReports[r].activities) } :
          r \in 1..Len(appReports) } \ {<<>>}

\* the occurrences of an activityId in the reports with the latest date
\* among the reports that hold it
LatestOccurrences(idText) ==
  LET holds == { <<r, k>> \in (1..Len(appReports)) \X (1..MaxActs) :
                   /\ k <= Len(appReports[r].activities)
                   /\ appReports[r].activities[k].activityId = idText }
  IN { x \in holds :
         \A y \in holds :
           getTime(appReports[y[1]].date) <= getTime(appReports[x[1]].date) }

\* entries holds exactly one entry for each occurring activityId, made of
\* an occurrence in a report with the latest date
OnePerIdFromLatest(entries, chart) ==
  /\ {entries[i].activityId : i \in 1..Len(entries)} = OccurringIds
  /\ Len(entries) = Cardinality(OccurringIds)
  /\ \A i \in 1..Len(entries) :
       \E x \in LatestOccurrences(entries[i].activityId) :
         LET a == appReports[x[1]].activities[x[2]] IN
         entries[i] = IF chart THEN ChartEntry(a, appReports[x[1]])
                               ELSE MasterEntry(a)

\* ------------------------------------------------------------------------
\* C14: the master log and the duration chart hold exactly one entry per
\* distinct non-empty activityId of the given reports, with the fields of
\* the occurrence in the report with the latest date, in whatever order
\* the reports are supplied.
\* ------------------------------------------------------------------------
OneEntryPerActivityIdFromLatestReport ==
  /\ last.op = "Milestones" => OnePerIdFromLatest(schedule, FALSE)
  /\ last.op = "BarChart" => OnePerIdFromLatest(uniqueActivities, TRUE)

\* the reports come latest first, an activity recurs under another name,
\* and the master log and the chart were both drawn
LatestWinsOverSupplyOrder ==
  /\ Len(appReports) >= 2
  /\ getTime(appReports[1].date) > getTime(appReports[2].date)
  /\ \E k \in 1..Len(appReports[1].activities) :
       \E j \in 1..Len(appReports[2].activities) :
         /\ appReports[1].activities[k].activityId # <<>>
         /\ appReports[1].activities[k].activityId
              = appReports[2].activities[j].activityId
         /\ appReports[1].activities[k].description
              # appReports[2].activities[j].description
  /\ schedule # <<>>
  /\ uniqueActivities # <<>>

\* ------------------------------------------------------------------------
\* The report list of a user who saves one report a day
\* ------------------------------------------------------------------------
InitLoad ==
  /\ docs = [k \in {DateOfDay(n) : n \in 1..MaxSaved} |-> NoDoc]
  /\ memDoc = emptyResourceMemory
  /\ localReports = [s \in Sessions |-> <<>>]
  /\ legacyApp = FALSE
  /\ date = [s \in Sessions |-> Today]
  /\ reportId = [s \in Sessions |-> IF s = "s1" THEN "1" ELSE "2"]
  /\ activities = [s \in Sessions |-> <<>>]
  /\ selectedActivityId = [s \in Sessions |-> Null]
  /\ resourceMemory = [s \in Sessions |-> emptyResourceMemory]
  /\ existingReport = [s \in Sessions |-> NoReport]
  /\ loading = [s \in Sessions |-> FALSE]
  /\ blur = [s \in Sessions |-> IdleBlur]
  /\ save = [s \in Sessions |-> Idle]
  /\ copy = [s \in Sessions |-> Idle]
  /\ ops = [edit |-> 0, save |-> 0, nav |-> 0, total |-> 0]
  /\ last = [op |-> "init"]
  /\ InitTemplates
  /\ InitApp

NextLoad ==
  \/ \E n \in 1..MaxSaved : SaveReportOfDay(n)
  \/ \E ok \in BOOLEAN : loadReports(ok)

SpecLoad == InitLoad /\ [][NextLoad]_vars

\* ------------------------------------------------------------------------
\* C15: every report the user has saved is in the report list that
\* loadReports hands to the views, however many reports there are.
\* ------------------------------------------------------------------------
EverySavedReportIsLoaded ==
  ( last.op = "loadReports" /\ last.ok ) =>
    \A k \in StoredKeys(docs) :
      \E i \in 1..Len(appReports) : appReports[i].date = docs[k].date

\* ------------------------------------------------------------------------
\* The entry form on a store whose reads and writes may reject: the form is
\* mounted with both loads in flight
\* ------------------------------------------------------------------------
InitFail ==
  /\ InitEntryForm
  /\ InitReports /\ InitAi /\ InitAuth /\ InitPlan
  /\ memLoad = [s \in Sessions |-> s = "s1"]
  /\ unhandled = FALSE
  /\ legacyApp = FALSE
  /\ ops = [edit |-> FailOps, save |-> FailOps, nav |-> FailOps,
            total |-> FailOps]

NextFail ==
  \/ \E d \in Dates : SetDate("s1", d)
  \/ \E ok \in BOOLEAN : LoadComplete("s1", ok)
  \/ \E ok \in BOOLEAN : MemLoadComplete("s1", ok)
  \/ addActivity("s1")
  \/ \E v \in TypedIds : TypeActivityId("s1", v)
  \/ BlurStart("s1")
  \/ \E c \in BOOLEAN : BlurFind("s1", c)
  \/ RippleRead("s1")
  \/ RippleCommit("s1")
  \/ BlurReject("s1")
  \/ SaveStart("s1")
  \/ SaveMemWrite("s1")
  \/ SaveReportWrite("s1")
  \/ SaveReject("s1")
  \/ \E d \in Dates : CopyStart("s1", d)
  \/ CopyWrite("s1")
  \/ CopyReject("s1")

SpecFail == InitFail /\ [][NextFail]_vars

\* C16: no rejection of a store read or write made by handleSave,
\* handleCopyReport, the ripple shift, the report load or the resource
\* memory load leaves its handler uncaught.
NoRejectionEscapes == ~unhandled

\* ------------------------------------------------------------------------
\* The assistant: GeminiService (src/unnamed/part_003), Chatbot.handleSend
\* and Dashboard.generateAiTrends. The AI service is external: building the
\* client throws when no API key is configured, the request resolves with a
\* text, resolves without one, or rejects
\* ------------------------------------------------------------------------
ChatNoText == <<"I couldn't generate a response.">>
ChatServiceError == <<"Sorry, I encountered an error connecting to the AI service.">>
ChatComponentError == <<"I'm having trouble connecting right now. Please try again later.">>
TrendsNoData == <<"Not enough data for trend analysis.">>
TrendsNoText == <<"No trends identified.">>
TrendsServiceError == <<"Error analyzing trends.">>
Answer == <<"answer">>

Outcomes == {"text", "empty", "rejects"}
InputValues == {<<>>, <<" ">>, <<"h", "i">>, <<"h", "i", " ">>}

AiUnchanged ==
  /\ FormUnchanged /\ TemplatesUnchanged /\ AuthUnchanged
  /\ UNCHANGED <<appReports, csvFile, schedule, uniqueActivities, planAct,
                 asOnDate, formula, chartData, memLoad>>

\* Chatbot.handleSend up to the call of chatWithProjectData
handleSend(inputValue) ==
  /\ CanDo("edit")
  /\ chat.pc = "idle"
  /\ ~ (trim(inputValue) = <<>> \/ chat.isLoading)
  /\ chat' = [pc |-> "getAI", isLoading |-> TRUE,
              messages |-> Append(chat.messages,
                                  [role |-> "user", text |-> trim(inputValue)])]
  /\ Did("edit")
  /\ last' = [op |-> "handleSend"]
  /\ AiUnchanged
  /\ UNCHANGED <<dashboard, unhandled>>

\* the message the try, catch and finally of handleSend leave
ChatSettled(text) ==
  [pc |-> "idle", isLoading |-> FALSE,
   messages |-> Append(chat.messages, [role |-> "model", text |-> text])]

\* getAI of chatWithProjectData: a throw rejects the call, which the catch
\* of handleSend receives
ChatGetAI(ok) ==
  /\ chat.pc = "getAI"
  /\ chat' = IF ok THEN [chat EXCEPT !.pc = "request"]
                   ELSE ChatSettled(ChatComponentError)
  /\ last' = [op |-> "chatGetAI", failed |-> ~ok]
  /\ AiUnchanged
  /\ UNCHANGED <<dashboard, unhandled, ops>>

\* generateContent of chatWithProjectData and the rest of handleSend
ChatRequest(outcome) ==
  /\ chat.pc = "request"
  /\ chat' = ChatSettled(CASE outcome = "text" -> Answer
                           [] outcome = "empty" -> ChatNoText
                           [] OTHER -> ChatServiceError)
  /\ last' = [op |-> "chatRequest", failed |-> outcome = "rejects"]
  /\ AiUnchanged
  /\ UNCHANGED <<dashboard, unhandled, ops>>

\* Dashboard.generateAiTrends up to getAI; identifyRiskTrends answers at
\* once when there is no report
generateAiTrends ==
  /\ CanDo("edit")
  /\ dashboard.pc = "idle"
  /\ ~dashboard.loadingAi
  /\ dashboard' = IF Len(appReports) = 0
       THEN [pc |-> "idle", loadingAi |-> FALSE, aiInsight |-> TrendsNoData]
       ELSE [dashboard EXCEPT !.pc = "getAI", !.loadingAi = TRUE]
  /\ Did("edit")
  /\ last' = [op |-> "generateAiTrends"]
  /\ AiUnchanged
  /\ UNCHANGED <<chat, unhandled>>

\* getAI of identifyRiskTrends: a throw rejects the call, and
\* generateAiTrends has no catch and no finally
TrendsGetAI(ok) ==
  /\ dashboard.pc = "getAI"
  /\ dashboard' = [dashboard EXCEPT !.pc = IF ok THEN "request" ELSE "idle"]
  /\ unhandled' = (unhandled \/ ~ok)
  /\ last' = [op |-> "trendsGetAI", failed |-> ~ok]
  /\ AiUnchanged
  /\ UNCHANGED <<chat, ops>>

\* generateContent of identifyRiskTrends and the rest of generateAiTrends
TrendsRequest(outcome) ==
  /\ dashboard.pc = "request"
  /\ dashboard' = [pc |-> "idle", loadingAi |-> FALSE,
                   aiInsight |-> CASE outcome = "text" -> Answer
                                   [] outcome = "empty" -> TrendsNoText
                                   [] OTHER -> TrendsServiceError]
  /\ last' = [op |-> "trendsRequest", failed |-> outcome = "rejects"]
  /\ AiUnchanged
  /\ UNCHANGED <<chat, unhandled, ops>>

InitAiViews ==
  /\ InitEntryForm
  /\ InitAi /\ InitAuth /\ InitPlan /\ InitHandled
  /\ appReports \in {<<>>, <<CsvReportOne>>}
  /\ csvFile = NoFile /\ schedule = <<>> /\ uniqueActivities = <<>>
  /\ legacyApp = FALSE
  /\ ops = [edit |-> AiOps, save |-> 0, nav |-> 0, total |-> AiOps]

NextAi ==
  \/ \E v \in InputValues : handleSend(v)
  \/ \E ok \in BOOLEAN : ChatGetAI(ok)
  \/ \E o \in Outcomes : ChatRequest(o)
  \/ generateAiTrends
  \/ \E ok \in BOOLEAN : TrendsGetAI(ok)
  \/ \E o \in Outcomes : TrendsRequest(o)

SpecAi == InitAiViews /\ [][NextAi]_vars

ChatFallbacks == {ChatServiceError, ChatComponentError}
TrendsFallbacks == {TrendsServiceError}

\* C17: when an AI request has failed, at getAI or at the request, the
\* component shows a fixed fallback text in place of the answer and its
\* loading flag is false again.
FailedAiRequestFallsBack ==
  /\ ( last.op \in {"chatGetAI", "chatRequest"} /\ last.failed ) =>
        /\ ~chat.isLoading
        /\ chat.messages[Len(chat.messages)].text \in ChatFallbacks
  /\ ( last.op \in {"trendsGetAI", "trendsRequest"} /\ last.failed ) =>
        /\ ~dashboard.loadingAi
        /\ dashboard.aiInsight \in TrendsFallbacks

\* ------------------------------------------------------------------------
\* Duration arithmetic and the progress formulas of the selected activity
\* (EntryForm.tsx 191-204 and 896-934), the duration chart (part_001 27-76)
\* ------------------------------------------------------------------------
\* the null of dayDiff and inclusiveDays, apart from every day count
NullDays == 0 - 999999

\* the days between two dates, whichever comes first
daysApart(from, to) ==
  LET a == toDate(from)
      b == toDate(to)
  IN IF a = NoDate \/ b = NoDate THEN NullDays
     ELSE IF a <= b THEN RoundDiv(b - a, DaySeconds)
     ELSE RoundDiv(a - b, DaySeconds)

dayDiff(from, to) ==
  LET a == toDate(from)
      b == toDate(to)
  IN IF a = NoDate \/ b = NoDate THEN NullDays
     ELSE RoundDiv(b - a, DaySeconds)

\* a duration that leaves the day of the start out
exclusiveDays(start, finish) == dayDiff(start, finish)

inclusiveDays(start, finish) ==
  LET d == dayDiff(start, finish)
  IN IF d = NullDays THEN NullDays ELSE d + 1

getInclusiveDays(start, finish) ==
  LET s == toDate(start)
      f == toDate(finish)
  IN IF s = NoDate \/ f = NoDate THEN 0
     ELSE Max2(0, RoundDiv(f - s, DaySeconds) + 1)

\* a JavaScript number that is a quotient of integers, kept exact
Rat(n, d) == IF d < 0 THEN [num |-> 0 - n, den |-> 0 - d]
                      ELSE [num |-> n, den |-> d]
RatLeq(p, q) == p.num * q.den <= q.num * p.den
RatEq(p, q) == p.num * q.den = q.num * p.den
\* null in place of a number
NoNumber == [none |-> TRUE]

\* clamp(n, min, max) == Math.max(min, Math.min(max, n))
clamp(n, min, max) ==
  LET low == IF RatLeq(n, Rat(max, 1)) THEN n ELSE Rat(max, 1)
  IN IF RatLeq(Rat(min, 1), low) THEN low ELSE Rat(min, 1)

\* the planned percent with the days before the reference date only
plannedPctOfDaysBefore(a, asOn) ==
  LET ps == toDate(a.plannedStart)
      pf == toDate(a.plannedFinish)
      ao == toDate(asOn)
  IN IF ps = NoDate \/ pf = NoDate \/ ao = NoDate THEN NoNumber
     ELSE IF ao >= pf THEN Rat(100, 1)
     ELSE IF ao <= ps THEN Rat(0, 1)
     ELSE clamp(Rat(dayDiff(a.plannedStart, asOn) * 100,
                    inclusiveDays(a.plannedStart, a.plannedFinish)), 0, 100)

plannedPctAsOn(a, asOn) ==
  LET ps == toDate(a.plannedStart)
      pf == toDate(a.plannedFinish)
      ao == toDate(asOn)
  IN IF ps = NoDate \/ pf = NoDate \/ ao = NoDate THEN NoNumber
     ELSE IF ao >= pf THEN Rat(100, 1)
     ELSE IF ao <= ps THEN Rat(0, 1)
     ELSE LET total == inclusiveDays(a.plannedStart, a.plannedFinish)
              elapsed == inclusiveDays(a.plannedStart, asOn)
          IN IF total \notin {NullDays, 0} /\ elapsed \notin {NullDays, 0}
               THEN clamp(Rat(elapsed * 100, total), 0, 100)
               ELSE NoNumber

\* num of the cost helpers: Number(v), 0 for NaN (undefined gives NaN)
num(v) == IF v = UndefNum \/ v = NaN THEN 0 ELSE v
costNum(row, f) == IF f \in DOMAIN row THEN num(row[f]) ELSE 0

safeDays(start, finish) ==
  LET d == inclusiveDays(start, finish)
  IN IF d # NullDays /\ d # 0 /\ d > 0 THEN d ELSE 0

\* a manpower row costed without its overtime
manpowerCostOfHours(m) == costNum(m, "quantity") * costNum(m, "cost")

manpowerCost(m) ==
  (costNum(m, "quantity") + costNum(m, "overtime")) * costNum(m, "cost")

rowCost(m) == costNum(m, "quantity") * costNum(m, "cost")

\* a?.[category]?.reduce(...) ?? 0
RECURSIVE reduceRows(_, _)
reduceRows(rows, isManpower) ==
  IF rows = <<>> THEN 0
  ELSE (IF isManpower THEN manpowerCost(Head(rows)) ELSE rowCost(Head(rows)))
         + reduceRows(Tail(rows), isManpower)

dailyOf(a, category) ==
  IF category \in DOMAIN a THEN reduceRows(a[category], category = "manpower")
                           ELSE 0

costTotals(plannedDays, mostLikely) ==
  [mostLikely |-> mostLikely,
   optimistic |-> Rat(mostLikely * 90, 100),
   pessimistic |-> Rat(mostLikely * 121, 100),
   stdDev |-> Rat(mostLikely * 121 - mostLikely * 90, 600),
   expected |-> Rat(mostLikely * 90 + 400 * mostLikely + mostLikely * 121, 600)]

costModelOf(plannedDays, manpowerDaily, materialDaily, equipmentDaily, subcontractorDaily) ==
  [plannedDays |-> plannedDays,
   daily |-> [manpower |-> manpowerDaily, material |-> materialDaily,
              equipment |-> equipmentDaily,
              subcontractor |-> subcontractorDaily,
              total |-> manpowerDaily + equipmentDaily + materialDaily
                          + subcontractorDaily],
   total |-> costTotals(plannedDays,
                        (manpowerDaily + equipmentDaily + materialDaily
                           + subcontractorDaily) * plannedDays)]

buildCostModelForActivity(a) ==
  costModelOf(safeDays(a.plannedStart, a.plannedFinish),
              dailyOf(a, "manpower"), dailyOf(a, "material"),
              dailyOf(a, "equipment"), dailyOf(a, "subcontractor"))

plannedQtyExpected(plannedQty, pct) ==
  IF pct # NoNumber THEN Rat(plannedQty * pct.num, pct.den * 100)
                    ELSE NoNumber

shortfall(plannedQty, actualQty, expected) ==
  IF expected # NoNumber
    THEN Rat(expected.num - actualQty * expected.den, expected.den)
    ELSE IF plannedQty # 0 THEN Rat(plannedQty - actualQty, 1)
    ELSE NoNumber

\* the fields of the formula memo that depend on the planned dates, the
\* quantities and the reference date
formulaFields(a, pct, expected) ==
  [plannedDur |-> inclusiveDays(a.plannedStart, a.plannedFinish),
   startDelay |-> dayDiff(a.plannedStart, Field(a, "actualStart")),
   plannedQty |-> a.plannedQuantity,
   actualQty |-> a.actualQuantity,
   costModel |-> buildCostModelForActivity(a),
   plannedPctAsOn |-> pct,
   plannedQtyExpected |-> expected,
   shortfall |-> shortfall(a.plannedQuantity, a.actualQuantity, expected)]

formulaWithPct(a, pct) ==
  formulaFields(a, pct, plannedQtyExpected(a.plannedQuantity, pct))

formulaOf(a, asOn) == formulaWithPct(a, plannedPctAsOn(a, asOn))

PlanUnchanged ==
  /\ FormUnchanged /\ TemplatesUnchanged /\ Handled /\ AuthUnchanged
  /\ UNCHANGED <<ops, appReports, csvFile, schedule, uniqueActivities, chat,
                 dashboard, planAct>>

\* the activity is selected: the effect sets asOnDate to the report date,
\* which it already holds, and the memo computes the formulas
SelectPlanActivity ==
  /\ formula = NoFormula
  /\ formula' = formulaOf(planAct, asOnDate)
  /\ last' = [op |-> "select"]
  /\ PlanUnchanged
  /\ UNCHANGED <<asOnDate, chartData>>

\* the user picks another reference date, or clears the input
setAsOnDate(value) ==
  /\ formula # NoFormula
  /\ value # asOnDate
  /\ asOnDate' = value
  /\ formula' = formulaOf(planAct, value)
  /\ last' = [op |-> "setAsOnDate"]
  /\ PlanUnchanged
  /\ UNCHANGED chartData

\* the duration chart of the report that holds the activity, mode 'days'
DurationChart ==
  /\ chartData = NoFormula
  /\ chartData' =
       [originalDays |-> getInclusiveDays(planAct.plannedStart,
                                          planAct.plannedFinish),
        plannedStart |-> planAct.plannedStart,
        plannedFinish |-> planAct.plannedFinish]
  /\ last' = [op |-> "chart"]
  /\ PlanUnchanged
  /\ UNCHANGED <<asOnDate, formula>>

\* the days of the calendar the plans are made of: the first days of 2024,
\* the end of February of a leap year, the turn of the year
PlanDays == (1..MaxPlanDay) \cup {59, 60, 61, 367}
PlanCalendar == [n \in PlanDays |-> DateOfDay(n)]
PlanDates == {PlanCalendar[n] : n \in PlanDays}
\* the place of a date in the calendar, counted day after day
DayIndex(d) == CHOOSE n \in PlanDays : PlanCalendar[n] = d
PlanQuantities == {<<100, 40>>}

PlanActivities ==
  { [plannedStart |-> ps, plannedFinish |-> pf,
     plannedQuantity |-> q[1], actualQuantity |-> q[2]] :
      ps \in PlanDates, pf \in PlanDates, q \in PlanQuantities }

InitPlanViews ==
  /\ InitEntryForm
  /\ InitReports /\ InitAi /\ InitAuth /\ InitHandled
  /\ legacyApp = FALSE
  /\ ops = [edit |-> 0, save |-> 0, nav |-> 0, total |-> 0]
  /\ planAct \in PlanActivities
  /\ asOnDate \in PlanDates
  /\ formula = NoFormula
  /\ chartData = NoFormula

NextPlan ==
  \/ SelectPlanActivity
  \/ \E d \in PlanDates \cup {<<>>} : setAsOnDate(d)
  \/ DurationChart

SpecPlan == InitPlanViews /\ [][NextPlan]_vars

Shown == formula # NoFormula /\ asOnDate # <<>>
Start == DayIndex(planAct.plannedStart)
Finish == DayIndex(planAct.plannedFinish)
Reference == DayIndex(asOnDate)

\* the reference date moves later, or stays
LaterReference ==
  /\ Shown /\ asOnDate' # <<>>
  /\ Reference <= DayIndex(asOnDate')

\* C18: with the cases read in their order, the planned percent is 100 when
\* the reference date is on or after plannedFinish, else 0 when it is on or
\* before plannedStart, else the days from plannedStart to the reference
\* date, both counted, over the days of the plan, times 100; it lies in
\* [0,100], a later reference date never gives a smaller percent, and the
\* 10-day plan seen on its day 5 gives 50 and, for 100 planned and 40 done,
\* shortfall 10.
PlannedPercentFollowsTheCalendar ==
  /\ [] ( Shown =>
           LET p == formula.plannedPctAsOn IN
           /\ p # NoNumber
           /\ RatLeq(Rat(0, 1), p) /\ RatLeq(p, Rat(100, 1))
           /\ Reference >= Finish => RatEq(p, Rat(100, 1))
           /\ ( Reference < Finish /\ Reference <= Start ) =>
                 RatEq(p, Rat(0, 1))
           /\ ( Reference < Finish /\ Reference > Start ) =>
                 RatEq(p, Rat((Reference - Start + 1) * 100,
                              Finish - Start + 1))
           /\ ( Start = 1 /\ Finish = 10 /\ Reference = 5 ) =>
                 /\ RatEq(p, Rat(50, 1))
                 /\ ( planAct.plannedQuantity = 100
                        /\ planAct.actualQuantity = 40 ) =>
                       RatEq(formula.shortfall, Rat(10, 1)) )
  /\ [][ LaterReference =>
           RatLeq(formula.plannedPctAsOn, formula'.plannedPctAsOn) ]_vars

TenDayPlanOnDayFive ==
  /\ Shown
  /\ last.op = "setAsOnDate"
  /\ Start = 1 /\ Finish = 10 /\ Reference = 5
  /\ planAct.plannedQuantity = 100 /\ planAct.actualQuantity = 40
  /\ RatEq(formula.plannedPctAsOn, Rat(50, 1))
  /\ RatEq(formula.shortfall, Rat(10, 1))

\* C19: for a plan whose start is on or before its finish, inclusiveDays is
\* the number of days from start to finish plus one (1 for equal dates, 10
\* for 2024-01-01 to 2024-01-10) and the chart's getInclusiveDays gives the
\* same number.
InclusiveDaysCountsBothEnds ==
  ( formula # NoFormula /\ Start <= Finish ) =>
    /\ formula.plannedDur = Finish - Start + 1
    /\ Start = Finish => formula.plannedDur = 1
    /\ ( Start = 1 /\ Finish = 10 ) => formula.plannedDur = 10
    /\ chartData # NoFormula => chartData.originalDays = formula.plannedDur

PlanAcrossLeapDayCounted ==
  /\ formula # NoFormula /\ chartData # NoFormula
  /\ Start = 59 /\ Finish = 61
  /\ formula.plannedDur = 3 /\ chartData.originalDays = 3

\* C20 as stated: for a start strictly later than the finish inclusiveDays
\* is a negative number.
InvertedRangeIsNegative ==
  ( formula # NoFormula /\ Start > Finish ) =>
    /\ formula.plannedDur # NullDays
    /\ formula.plannedDur < 0

\* C20: for a start strictly later than the finish inclusiveDays is a
\* number, the days from start to finish plus one: 0 when the start is the
\* day after the finish, negative when it is later than that.
InvertedRangeIsDayDiffPlusOne ==
  ( formula # NoFormula /\ Start > Finish ) =>
    /\ formula.plannedDur # NullDays
    /\ formula.plannedDur = Finish - Start + 1
    /\ Start = Finish + 1 => formula.plannedDur = 0
    /\ Start > Finish + 1 => formula.plannedDur < 0

StartTheDayAfterFinish ==
  /\ formula # NoFormula
  /\ Start = 61 /\ Finish = 60
  /\ formula.plannedDur = 0

\* ------------------------------------------------------------------------
\* The progress formulas and the chart of an activity whose dates may be
\* missing or unparsable
\* ------------------------------------------------------------------------
Unparsable == <<"T", "B", "D">>
DateInputs == {<<>>, Unparsable, PlanCalendar[1], PlanCalendar[5]}

DatedActivities ==
  { [plannedStart |-> ps, plannedFinish |-> pf, actualStart |-> as,
     plannedQuantity |-> 100, actualQuantity |-> 40] :
      ps \in DateInputs, pf \in DateInputs, as \in DateInputs }

InitDates ==
  /\ InitEntryForm
  /\ InitReports /\ InitAi /\ InitAuth /\ InitHandled
  /\ legacyApp = FALSE
  /\ ops = [edit |-> 0, save |-> 0, nav |-> 0, total |-> 0]
  /\ planAct \in DatedActivities
  /\ asOnDate = PlanCalendar[1]
  /\ formula = NoFormula
  /\ chartData = NoFormula

NextDates ==
  \/ SelectPlanActivity
  \/ \E d \in DateInputs : setAsOnDate(d)
  \/ DurationChart

SpecDates == InitDates /\ [][NextDates]_vars

Missing(d) == toDate(d) = NoDate

\* C21: when plannedStart or plannedFinish is empty or unparsable, the
\* planned duration, the planned days of the cost model and the chart's
\* days are null and not a number such as 0, a delay with a missing date is
\* null, and the quantities and the delay of two present dates are still
\* computed.
MissingDateGivesNoDuration ==
  /\ ( formula # NoFormula
         /\ (Missing(planAct.plannedStart) \/ Missing(planAct.plannedFinish)) ) =>
        /\ formula.plannedDur = NullDays
        /\ formula.costModel.plannedDays = NullDays
        /\ formula.plannedQty = planAct.plannedQuantity
        /\ formula.actualQty = planAct.actualQuantity
        /\ ( ~Missing(planAct.plannedStart) /\ ~Missing(planAct.actualStart) ) =>
              formula.startDelay # NullDays
        /\ ( Missing(planAct.plannedStart) \/ Missing(planAct.actualStart) ) =>
              formula.startDelay = NullDays
  /\ ( chartData # NoFormula
         /\ (Missing(planAct.plannedStart) \/ Missing(planAct.plannedFinish)) ) =>
        chartData.originalDays = NullDays

\* ------------------------------------------------------------------------
\* The cost model of an activity with resource rows
\* ------------------------------------------------------------------------
CostRows ==
  { [quantity |-> 8, overtime |-> ot, cost |-> c] :
      ot \in {UndefNum, 2}, c \in {UndefNum, 100} }

RECURSIVE RowLists(_)
RowLists(n) ==
  IF n = 0 THEN {<<>>}
  ELSE RowLists(n - 1)
         \cup { Append(l, r) : l \in {x \in RowLists(n - 1) : Len(x) = n - 1},
                               r \in CostRows }

OtherRows ==
  { <<>>, << [quantity |-> 4, overtime |-> 3, cost |-> 25] >>,
    << [quantity |-> 4, overtime |-> UndefNum, cost |-> 25] >> }

CostActivities ==
  { [plannedStart |-> PlanCalendar[d[1]], plannedFinish |-> PlanCalendar[d[2]],
     plannedQuantity |-> 100, actualQuantity |-> 40,
     manpower |-> mp, material |-> mat, equipment |-> eq,
     subcontractor |-> sub] :
      d \in {<<1, 5>>, <<1, 1>>, <<5, 1>>, <<60, 61>>},
      mp \in RowLists(MaxCostRows), mat \in OtherRows, eq \in OtherRows,
      sub \in {<<>>, <<[quantity |-> 1, cost |-> 50]>>} }

InitCost ==
  /\ InitEntryForm
  /\ InitReports /\ InitAi /\ InitAuth /\ InitHandled
  /\ legacyApp = FALSE
  /\ ops = [edit |-> 0, save |-> 0, nav |-> 0, total |-> 0]
  /\ planAct \in CostActivities
  /\ asOnDate = PlanCalendar[1]
  /\ formula = NoFormula
  /\ chartData = NoFormula

NextCost ==
  \/ SelectPlanActivity
  \/ \E d \in {PlanCalendar[1], PlanCalendar[5]} : setAsOnDate(d)
  \/ DurationChart

SpecCost == InitCost /\ [][NextCost]_vars

\* a number of a row as the claim reads it: nothing entered counts as 0
Entered(v) == IF v = UndefNum THEN 0 ELSE v

RECURSIVE SumOfRows(_, _)
SumOfRows(rows, withOvertime) ==
  IF rows = <<>> THEN 0
  ELSE LET r == Head(rows)
       IN (Entered(r.quantity)
             + (IF withOvertime THEN Entered(r.overtime) ELSE 0))
            * Entered(r.cost)
          + SumOfRows(Tail(rows), withOvertime)

ClaimedDaily ==
  SumOfRows(planAct.manpower, TRUE) + SumOfRows(planAct.material, FALSE)
    + SumOfRows(planAct.equipment, FALSE)
    + SumOfRows(planAct.subcontractor, FALSE)

Accounts ==
  { [uid |-> "u1", emailVerified |-> TRUE],
    [uid |-> "u2", emailVerified |-> TRUE],
    [uid |-> "u3", emailVerified |-> FALSE] }

\* what getReports(userId) gives: the reports stored under that user
ReportsOf(uid) == << [id |-> "1", date |-> Today, userId |-> uid] >>

AuthFrame ==
  /\ FormUnchanged /\ TemplatesUnchanged /\ Handled
  /\ UNCHANGED <<csvFile, schedule, uniqueActivities, chat, dashboard,
                 planAct, asOnDate, formula, chartData>>

\* signInWithEmailAndPassword of handleAuth resolves: the identity is signed
\* in and the listeners are told; an unverified account goes on to
\* sendEmailVerification
SignIn(account) ==
  /\ CanDo("nav")
  /\ identity = NoIdentity /\ authPc = "idle"
  /\ identity' = account
  /\ authEvents' = Append(authEvents, account)
  /\ authPc' = IF account.emailVerified THEN "idle" ELSE "sendVerification"
  /\ Did("nav")
  /\ last' = [op |-> "signIn"]
  /\ AuthFrame
  /\ UNCHANGED <<user, requests, appReports>>

\* sendEmailVerification has resolved: handleAuth signs the account out
SignOutUnverified ==
  /\ authPc = "sendVerification"
  /\ identity' = NoIdentity
  /\ authEvents' = Append(authEvents, NoIdentity)
  /\ authPc' = "idle"
  /\ last' = [op |-> "signOutUnverified"]
  /\ AuthFrame
  /\ UNCHANGED <<user, requests, appReports, ops>>

\* handleLogout: signOut(auth)
handleLogout ==
  /\ CanDo("nav")
  /\ user # NoUser /\ identity # NoIdentity /\ authPc = "idle"
  /\ identity' = NoIdentity
  /\ authEvents' = Append(authEvents, NoIdentity)
  /\ Did("nav")
  /\ last' = [op |-> "handleLogout"]
  /\ AuthFrame
  /\ UNCHANGED <<authPc, user, requests, appReports>>

\* the listener of the legacy App: the user only when the email is
\* verified, the reports read at once from localStorage
AuthStateChangedLegacy(firebaseUser) ==
  IF firebaseUser # NoIdentity /\ firebaseUser.emailVerified
    THEN /\ user' = firebaseUser.uid
         /\ appReports' = ReportsOf(firebaseUser.uid)
         /\ UNCHANGED requests
    ELSE /\ user' = NoUser
         /\ appReports' = <<>>
         /\ UNCHANGED requests

\* the listener of the Firestore App up to its await of addUser
AuthStateChangedFirestore(firebaseUser) ==
  IF firebaseUser # NoIdentity
    THEN /\ user' = firebaseUser.uid
         /\ requests' = requests \cup {[pc |-> "addUser", userId |-> firebaseUser.uid]}
         /\ UNCHANGED appReports
    ELSE /\ user' = NoUser
         /\ appReports' = <<>>
         /\ UNCHANGED requests

onAuthStateChanged ==
  /\ authEvents # <<>>
  /\ authEvents' = Tail(authEvents)
  /\ IF legacyApp THEN AuthStateChangedLegacy(Head(authEvents))
                  ELSE AuthStateChangedFirestore(Head(authEvents))
  /\ last' = [op |-> "onAuthStateChanged"]
  /\ AuthFrame
  /\ UNCHANGED <<identity, authPc, ops>>

\* addUser has resolved (it catches its own errors): loadReports starts
AddUserDone(r) ==
  /\ r \in requests /\ r.pc = "addUser"
  /\ requests' = (requests \ {r}) \cup {[pc |-> "getReports", userId |-> r.userId]}
  /\ last' = [op |-> "addUserDone"]
  /\ AuthFrame
  /\ UNCHANGED <<identity, authEvents, authPc, user, appReports, ops>>

\* getReports has resolved, with [] when its read failed: setReports
LoadReportsDone(r, ok) ==
  /\ r \in requests /\ r.pc = "getReports"
  /\ requests' = requests \ {r}
  /\ appReports' = IF ok THEN ReportsOf(r.userId) ELSE <<>>
  /\ last' = [op |-> "loadReportsDone"]
  /\ AuthFrame
  /\ UNCHANGED <<identity, authEvents, authPc, user, ops>>

InitSignIn ==
  /\ InitEntryForm
  /\ InitReports /\ InitAi /\ InitAuth /\ InitPlan /\ InitHandled
  /\ legacyApp \in BOOLEAN
  /\ ops = [edit |-> 0, save |-> 0, nav |-> AuthOps, total |-> AuthOps]

NextAuth ==
  \/ \E a \in Accounts : SignIn(a)
  \/ SignOutUnverified
  \/ handleLogout
  \/ onAuthStateChanged
  \/ \E r \in requests : AddUserDone(r)
  \/ \E r \in requests, ok \in BOOLEAN : LoadReportsDone(r, ok)

SpecAuth == InitSignIn /\ [][NextAuth]_vars

\* C23: while the App has no user (from the sign-out the listener was told
\* until the next sign-in) the report list is empty, whatever load
\* completes meanwhile, and while it has a user the list holds only that
\* user's reports.
ReportListIsOfTheCurrentUser ==
  /\ user = NoUser => appReports = <<>>
  /\ user # NoUser =>
       \A i \in 1..Len(appReports) : appReports[i].userId = user

Unverified == {a.uid : a \in {x \in Accounts : ~x.emailVerified}}

\* C27: an identity whose email is not verified is never the App's user,
\* and no reports are requested or shown for it, the time between its
\* sign-in and the sign-out of handleAuth included.
UnverifiedIsNeverTheUser ==
  /\ user \notin Unverified
  /\ \A r \in requests : r.userId \notin Unverified
  /\ \A i \in 1..Len(appReports) : appReports[i].userId \notin Unverified

\* ------------------------------------------------------------------------
\* The report load effect with its reads in flight (EntryForm.tsx 523,
\* 590-630): every run of the effect has its own `cancelled`, which the
\* cleanup of the run sets when a dependency changes
\* ------------------------------------------------------------------------
\* the cleanups of the runs of session s: their reads stay in flight, the
\* record of a run that has finished goes
cleanupLoads(s) ==
  {IF r.s = s THEN [r EXCEPT !.cancelled = TRUE] ELSE r :
     r \in {q \in requests : ~(q.s = s /\ q.pc = "settled")}}

\* a run that applies whatever its read brings
cancelledIgnored(r) == FALSE

\* if (cancelled) return
isCancelled(r) == r.cancelled

\* one run of the effect for date d with the report ex passed by the App
runLoadEffect(s, d, ex, pending) ==
  IF ex # NoReport /\ ex.date = d
    THEN /\ reportId' = [reportId EXCEPT ![s] = ex.id]
         /\ activities' = [activities EXCEPT ![s] = ex.activities]
         /\ selectedActivityId' = [selectedActivityId EXCEPT ![s] = Null]
         /\ loading' = [loading EXCEPT ![s] = FALSE]
         /\ requests' = pending
    ELSE /\ requests' = pending \cup
              {[pc |-> "getReportByDate", s |-> s, date |-> d,
                cancelled |-> FALSE, ok |-> TRUE]}
         /\ loading' = [loading EXCEPT ![s] = TRUE]
         /\ UNCHANGED <<reportId, activities, selectedActivityId>>

LoadFrame ==
  /\ StoreUnchanged /\ AsyncUnchanged /\ TemplatesUnchanged /\ AppUnchanged
  /\ Handled
  /\ UNCHANGED <<resourceMemory, identity, authEvents, authPc, user>>

\* setDate from the calendar
SelectDate(s, d) ==
  /\ CanDo("nav")
  /\ d # date[s]
  /\ date' = [date EXCEPT ![s] = d]
  /\ runLoadEffect(s, d, existingReport[s], cleanupLoads(s))
  /\ Did("nav")
  /\ last' = [op |-> "selectDate", s |-> s]
  /\ LoadFrame
  /\ UNCHANGED existingReport

\* the App passes a report for editing: the effect runs once with the date
\* the form still has, the effect of line 523 sets the date, and the effect
\* runs again with the report's date
EditReport(s, report) ==
  /\ CanDo("nav")
  /\ report # existingReport[s]
  /\ existingReport' = [existingReport EXCEPT ![s] = report]
  /\ date' = [date EXCEPT ![s] = report.date]
  /\ runLoadEffect(s, report.date, report,
       cleanupLoads(s) \cup
         (IF report.date = date[s] THEN {}
          ELSE {[pc |-> "getReportByDate", s |-> s, date |-> date[s],
                 cancelled |-> TRUE, ok |-> TRUE]}))
  /\ Did("nav")
  /\ last' = [op |-> "editReport", s |-> s]
  /\ LoadFrame

\* getReportByDate of run r resolves (ok) or rejects
getReportByDateDone(r, ok) ==
  /\ r \in requests /\ r.pc = "getReportByDate"
  /\ IF isCancelled(r)
       THEN /\ requests' = requests \ {r}
            /\ last' = [op |-> "staleLoad", s |-> r.s, date |-> r.date]
            /\ UNCHANGED <<reportId, activities, selectedActivityId, loading>>
       ELSE /\ LET existing == docs[r.date] IN
               IF ok /\ existing # NoDoc
                 THEN /\ reportId' = [reportId EXCEPT ![r.s] = existing.id]
                      /\ activities' = [activities EXCEPT ![r.s] = existing.activities]
                 ELSE /\ HasFresh(UsedReportIds)
                      /\ reportId' = [reportId EXCEPT ![r.s] = generateId(UsedReportIds)]
                      /\ activities' = [activities EXCEPT ![r.s] = <<>>]
            /\ selectedActivityId' = [selectedActivityId EXCEPT ![r.s] = Null]
            /\ loading' = [loading EXCEPT ![r.s] = FALSE]
            /\ requests' = (requests \ {r}) \cup
                 {[r EXCEPT !.pc = "settled", !.cancelled = FALSE, !.ok = ok]}
            /\ last' = [op |-> "load", s |-> r.s]
  /\ LoadFrame
  /\ UNCHANGED <<date, existingReport, ops>>

\* reports of earlier days in the store, and one the App can pass for editing
StoredReport(d) ==
  [id |-> "r-" \o d, date |-> d,
   activities |-> << NewActivity("a-" \o d, 1) >>]

EditedReport(d) ==
  [id |-> "e-" \o d, date |-> d,
   activities |-> << NewActivity("b-" \o d, 1), NewActivity("c-" \o d, 2) >>]

InitReload ==
  /\ docs \in {f \in [DocKeys -> {NoDoc} \cup {StoredReport(d) : d \in Dates}] :
                 \A k \in DocKeys :
                   f[k] # NoDoc => (k \in Dates /\ f[k] = StoredReport(k))}
  /\ memDoc = emptyResourceMemory
  /\ localReports = [s \in Sessions |-> <<>>]
  /\ date = [s \in Sessions |-> Today]
  /\ reportId = [s \in Sessions |-> IF s = "s1" THEN "1" ELSE "2"]
  /\ activities = [s \in Sessions |-> <<>>]
  /\ selectedActivityId = [s \in Sessions |-> Null]
  /\ resourceMemory = [s \in Sessions |-> emptyResourceMemory]
  /\ existingReport = [s \in Sessions |-> NoReport]
  /\ loading = [s \in Sessions |-> TRUE]
  /\ blur = [s \in Sessions |-> IdleBlur]
  /\ save = [s \in Sessions |-> Idle]
  /\ copy = [s \in Sessions |-> Idle]
  /\ last = [op |-> "init"]
  /\ InitTemplates
  /\ InitReports /\ InitAi /\ InitPlan /\ InitHandled
  /\ identity = NoIdentity /\ authEvents = <<>> /\ authPc = "idle"
  /\ user = NoUser
  /\ requests = {[pc |-> "getReportByDate", s |-> s, date |-> Today,
                  cancelled |-> FALSE, ok |-> TRUE] : s \in Sessions}
  /\ legacyApp = FALSE
  /\ ops = [edit |-> 0, save |-> 0, nav |-> ReloadOps, total |-> ReloadOps]

NextReload ==
  \/ \E s \in Sessions, d \in Dates : SelectDate(s, d)
  \/ \E s \in Sessions, d \in Dates : EditReport(s, EditedReport(d))
  \/ \E r \in requests, ok \in BOOLEAN : getReportByDateDone(r, ok)

SpecReload == InitReload /\ [][NextReload]_vars

\* the form of session s shows what the run for date d brought
ShowsLoaded(s, d, ok) ==
  IF ok /\ docs[d] # NoDoc
    THEN reportId[s] = docs[d].id /\ activities[s] = docs[d].activities
    ELSE reportId[s] \in IdPool /\ activities[s] = <<>>

ShowsEdited(s) ==
  /\ reportId[s] = existingReport[s].id
  /\ activities[s] = existingReport[s].activities

\* C24: once the latest run of the load effect has finished, the form's
\* report id and activities are those of the latest selected date (of the
\* report passed for editing when it is of that date, else of the stored
\* report of that date, else a new empty report), whatever reads of earlier
\* runs resolve before or after it.
StaleLoadNeverApplied ==
  \A s \in Sessions :
    /\ \A r \in requests :
         (r.s = s /\ r.pc = "settled") =>
            r.date = date[s] /\ ShowsLoaded(s, r.date, r.ok)
    /\ (existingReport[s] # NoReport /\ existingReport[s].date = date[s])
          => ShowsEdited(s)

\* the read for the first date resolves after the read for the second date
\* has been applied, both dates having a stored report
StaleLoadFinishedLast ==
  /\ last.op = "staleLoad"
  /\ last.date # date[last.s]
  /\ docs[last.date] # NoDoc
  /\ \E r \in requests :
       /\ r.s = last.s /\ r.pc = "settled" /\ r.ok
       /\ docs[r.date] # NoDoc
       /\ activities[last.s] = docs[r.date].activities

\* ------------------------------------------------------------------------
\* The ripple shift and a save between its read and its commit
\* (EntryForm.tsx 104-107, 139-180)
\* ------------------------------------------------------------------------
\* two forms of one user: activities are added and saved while a blur of
\* the Activity ID input runs its ripple shift
InitShift ==
  /\ InitForm
  /\ legacyApp = FALSE
  /\ ops = [edit |-> ShiftOps, save |-> ShiftOps, nav |-> 0, total |-> ShiftOps]

NextShift ==
  \E s \in Sessions :
    \/ \E ok \in BOOLEAN : LoadComplete(s, ok)
    \/ addActivity(s)
    \/ BlurStart(s)
    \/ \E c \in BOOLEAN : BlurFind(s, c)
    \/ RippleRead(s)
    \/ RippleCommit(s)
    \/ SaveStart(s)
    \/ SaveMemWrite(s)
    \/ SaveReportWrite(s)

SpecShift == InitShift /\ [][NextShift]_vars

\* the same activities, whatever their activityIds
SameButActivityIds(acts, saved) ==
  /\ Len(acts) = Len(saved)
  /\ \A i \in 1..Len(saved) :
       [acts[i] EXCEPT !.activityId = <<>>] = [saved[i] EXCEPT !.activityId = <<>>]

\* C25: when a report was saved between the read of a ripple shift and its
\* batch commit, the stored report after the commit holds the activities of
\* that save, with at most their activityIds changed.
ConcurrentSaveSurvivesShift ==
  (last.op = "rippleDone") =>
     \A k \in DocKeys :
       (last.store[k] # NoDoc /\ last.store[k] # last.snaps[k]) =>
          /\ docs[k] # NoDoc
          /\ SameButActivityIds(docs[k].activities, last.store[k].activities)

\* ------------------------------------------------------------------------
\* Deleting a report from the dashboard list (App.tsx 312-320,
\* firestoreService.ts 67-93)
\* ------------------------------------------------------------------------
\* deleteDoc(doc(db, "users", userId, "reports", reportId)): deleting a
\* document that is not there changes nothing
deleteReport(store, id) ==
  IF id \in DOMAIN store
    THEN [store EXCEPT ![id] = NoDoc]
    ELSE store

\* handleDeleteReport(report.id) for the i-th report of the list, confirmed:
\* deleteReport, then loadReports
handleDeleteReport(i, ok) ==
  /\ i \in 1..Len(appReports)
  /\ docs' = deleteReport(docs, appReports[i].id)
  /\ appReports' = IF ok THEN getReports(docs') ELSE <<>>
  /\ last' = [op |-> "deleteReport", id |-> appReports[i].id,
              date |-> appReports[i].date, ok |-> ok]
  /\ TemplatesUnchanged /\ Handled /\ AuthUnchanged
  /\ UNCHANGED <<memDoc, localReports, legacyApp, date, reportId, activities,
                 selectedActivityId, resourceMemory, existingReport, loading,
                 blur, save, copy, ops>>
  /\ UNCHANGED <<csvFile, schedule, uniqueActivities, chat, dashboard,
                 planAct, asOnDate, formula, chartData>>

\* a report that saveReport of firestoreService stored: its document is
\* keyed by its id
ServiceReport == [id |-> <<"s", "1">>, date |-> DateOfDay(1), activities |-> <<>>]

InitDelete ==
  /\ docs = [k \in {DateOfDay(n) : n \in 1..MaxStored} \cup {ServiceReport.id}
               |-> NoDoc]
  /\ memDoc = emptyResourceMemory
  /\ localReports = [s \in Sessions |-> <<>>]
  /\ legacyApp = FALSE
  /\ date = [s \in Sessions |-> Today]
  /\ reportId = [s \in Sessions |-> IF s = "s1" THEN "1" ELSE "2"]
  /\ activities = [s \in Sessions |-> <<>>]
  /\ selectedActivityId = [s \in Sessions |-> Null]
  /\ resourceMemory = [s \in Sessions |-> emptyResourceMemory]
  /\ existingReport = [s \in Sessions |-> NoReport]
  /\ loading = [s \in Sessions |-> FALSE]
  /\ blur = [s \in Sessions |-> IdleBlur]
  /\ save = [s \in Sessions |-> Idle]
  /\ copy = [s \in Sessions |-> Idle]
  /\ ops = [edit |-> 0, save |-> 0, nav |-> 0, total |-> 0]
  /\ last = [op |-> "init"]
  /\ InitTemplates
  /\ InitApp

\* saveReport(userId, report) of firestoreService
StoreServiceReport ==
  /\ docs[ServiceReport.id] = NoDoc
  /\ docs' = [docs EXCEPT ![ServiceReport.id] = ServiceReport]
  /\ last' = [op |-> "serviceSave"]
  /\ TemplatesUnchanged /\ AppUnchanged /\ Handled /\ AuthUnchanged
  /\ UNCHANGED <<memDoc, localReports, legacyApp, date, reportId, activities,
                 selectedActivityId, resourceMemory, existingReport, loading,
                 blur, save, copy, ops>>

NextDelete ==
  \/ StoreServiceReport
  \/ \E n \in 1..MaxStored : SaveReportOfDay(n)
  \/ \E ok \in BOOLEAN : loadReports(ok)
  \/ \E i \in 1..(MaxStored + 1), ok \in BOOLEAN : handleDeleteReport(i, ok)

SpecDelete == InitDelete /\ [][NextDelete]_vars

\* C26: after the report that getReports returned with id r has been
\* deleted with that id, no report with that id is returned by getReports,
\* whether its document is keyed by its id or by its date.
DeletedReportIsGone ==
  (last.op = "deleteReport") =>
     \A j \in 1..Len(getReports(docs)) : getReports(docs)[j].id # last.id

\* ------------------------------------------------------------------------
\* Declining the ripple shift (EntryForm.tsx 665-694)
\* ------------------------------------------------------------------------
Declined ==
  last.op = "blurFind" /\ last.conflict /\ ~last.confirmShift

\* C28: when the committed ID collides and the user declines the shift, no
\* stored report changes, no shift is started, and in the open report the
\* edited activity gets the upper-cased typed ID while every other activity
\* stays as it was, its ID included.
DeclinedShiftKeepsDuplicate ==
  Declined =>
    /\ docs = last.store
    /\ blur[last.s].pc = "idle"
    /\ Len(activities[last.s]) = Len(last.pre)
    /\ \A i \in 1..Len(last.pre) :
         activities[last.s][i] =
           IF last.pre[i].id = last.id
             THEN [last.pre[i] EXCEPT !.activityId = last.upperId]
             ELSE last.pre[i]

\* the lower-case text of the first activity's ID was typed into the second
\* activity, and the shift was declined: both now have the same ID
DuplicateKeptAfterDecline ==
  /\ Declined
  /\ last.upperId = toUpperCase(last.upperId)
  /\ Len(activities[last.s]) = 2
  /\ \E i, j \in 1..2 :
       /\ i # j
       /\ last.pre[i].id = last.id
       /\ last.pre[i].activityId # last.upperId
       /\ toUpperCase(last.pre[i].activityId) = last.upperId
       /\ activities[last.s][i].activityId = activities[last.s][j].activityId
       /\ activities[last.s][j] = last.pre[j]

\* ------------------------------------------------------------------------
\* The ripple shift as a function of the stored reports
\* (EntryForm.tsx 139-180; part_005 134-171)
\* ------------------------------------------------------------------------
\* StorageService.rippleShiftActivityIds of the entry form, from its read to
\* its commit
rippleShiftActivityIds(store, activityId) ==
  IF ~HasMatch(activityId) THEN store
  ELSE CommitBatch(store, RippleBatch(store, activityId))

\* the forEach callback of rippleShiftActivityIds of part_005
ShiftLocal(act, conflictNum) ==
  LET currentNum == getNum(act.activityId) IN
  IF currentNum >= conflictNum
    THEN [act EXCEPT !.activityId =
            getPrefix(act.activityId, ACT)
              \o padStart(NumToString(currentNum + 1), 5, "0")]
    ELSE act

\* StorageService.rippleShiftActivityIds of part_005 over the reports of
\* localStorage
rippleShiftLocal(reports, conflictId) ==
  LET conflictNum == getNum(conflictId) IN
  IF conflictNum = 0 THEN reports
  ELSE [r \in 1..Len(reports) |->
          [reports[r] EXCEPT !.activities =
             [i \in 1..Len(reports[r].activities) |->
                ShiftLocal(reports[r].activities[i], conflictNum)]]]

\* IDs that were typed and stored: the generated form, fewer digits, no
\* prefix, another prefix
StoredIds ==
  { formatActId(1), formatActId(2),
    <<"A", "C", "T", "-", "1">>,
    <<"0", "0", "0", "0", "1">>,
    <<"7">>,
    <<"B", "-", "0", "0", "0", "0", "1">> }

ConflictIds == { formatActId(1), <<"1">>, <<"B", "-", "2">> }

IdPairs == {q \in StoredIds \X StoredIds : q[1] # q[2]}

\* two activities with different IDs, in one report or in two
ShiftReports ==
  { <<[id |-> "1", date |-> "2024-03-01",
       activities |-> <<[NewActivity("1", 1) EXCEPT !.activityId = pr[1]],
                        [NewActivity("2", 2) EXCEPT !.activityId = pr[2]]>>]>> :
      pr \in IdPairs }
  \cup
  { <<[id |-> "1", date |-> "2024-03-01",
       activities |-> <<[NewActivity("1", 1) EXCEPT !.activityId = pr[1]]>>],
      [id |-> "2", date |-> "2024-03-02",
       activities |-> <<[NewActivity("2", 1) EXCEPT !.activityId = pr[2]]>>]>> :
      pr \in IdPairs }

RECURSIVE StoreOf(_)
StoreOf(reports) ==
  IF reports = <<>> THEN [k \in DocKeys |-> NoDoc]
  ELSE saveReport(StoreOf(Tail(reports)), Head(reports))

InitRipple ==
  /\ \E reports \in ShiftReports :
       /\ docs = StoreOf(reports)
       /\ localReports = [s \in Sessions |-> reports]
  /\ memDoc = emptyResourceMemory
  /\ legacyApp = FALSE
  /\ date = [s \in Sessions |-> Today]
  /\ reportId = [s \in Sessions |-> IF s = "s1" THEN "3" ELSE "4"]
  /\ activities = [s \in Sessions |-> <<>>]
  /\ selectedActivityId = [s \in Sessions |-> Null]
  /\ resourceMemory = [s \in Sessions |-> emptyResourceMemory]
  /\ existingReport = [s \in Sessions |-> NoReport]
  /\ loading = [s \in Sessions |-> FALSE]
  /\ blur = [s \in Sessions |-> IdleBlur]
  /\ save = [s \in Sessions |-> Idle]
  /\ copy = [s \in Sessions |-> Idle]
  /\ ops = [edit |-> 0, save |-> 0, nav |-> 0, total |-> 0]
  /\ last = [op |-> "init"]
  /\ InitTemplates
  /\ InitApp

RippleFrame ==
  /\ TemplatesUnchanged /\ AppUnchanged /\ Handled /\ AuthUnchanged
  /\ UNCHANGED <<memDoc, legacyApp, date, reportId, activities,
                 selectedActivityId, resourceMemory, existingReport, loading,
                 blur, save, copy, ops>>

ShiftFirestore(conflictId) ==
  /\ last.op = "init"
  /\ docs' = rippleShiftActivityIds(docs, conflictId)
  /\ last' = [op |-> "shifted", by |-> "firestore", id |-> conflictId,
              before |-> DocsOf(docs, StoredKeys(docs))]
  /\ RippleFrame
  /\ UNCHANGED localReports

ShiftLocalStorage(conflictId) ==
  /\ last.op = "init"
  /\ localReports' = [localReports EXCEPT ![S1] = rippleShiftLocal(@, conflictId)]
  /\ last' = [op |-> "shifted", by |-> "local", id |-> conflictId,
              before |-> localReports[S1]]
  /\ RippleFrame
  /\ UNCHANGED docs

NextRipple ==
  \/ \E c \in ConflictIds : ShiftFirestore(c)
  \/ \E c \in ConflictIds : ShiftLocalStorage(c)

SpecRipple == InitRipple /\ [][NextRipple]_vars

ActivityPlaces(reports) ==
  {p \in (1..Len(reports)) \X (1..MaxActs) :
     p[2] <= Len(reports[p[1]].activities)}

IdAt(reports, p) == reports[p[1]].activities[p[2]].activityId

StaysDistinct(before, after) ==
  \A p, q \in ActivityPlaces(before) :
    IdAt(before, p) # IdAt(before, q) => IdAt(after, p) # IdAt(after, q)

\* C29: two stored activities whose activityIds differ before a ripple
\* shift have different activityIds after it, whatever the form of the IDs,
\* in the Firestore store and in localStorage.
ShiftKeepsIdsDistinct ==
  (last.op = "shifted") =>
     StaysDistinct(last.before,
                   IF last.by = "firestore" THEN DocsOf(docs, StoredKeys(docs))
                                            ELSE localReports[S1])

\* ------------------------------------------------------------------------
\* Two names queued on the one timer of the form
\* (EntryForm.tsx 732-765, 798-809)
\* ------------------------------------------------------------------------
Raj == <<"r", "a", "j">>

\* two manpower rows with different names in the selected activity
InitQueue ==
  /\ docs = [k \in DocKeys |-> NoDoc]
  /\ memDoc = emptyResourceMemory
  /\ localReports = [s \in Sessions |-> <<>>]
  /\ legacyApp = FALSE
  /\ date = [s \in Sessions |-> Today]
  /\ reportId = [s \in Sessions |-> IF s = "s1" THEN "1" ELSE "2"]
  /\ activities = [s \in Sessions |->
       IF s = "s1"
         THEN << [NewActivity("1", 1) EXCEPT
                    !.manpower = << [ManRow("1", 1) EXCEPT !.name = Raj],
                                    [ManRow("2", 2) EXCEPT !.name = Tam] >>] >>
         ELSE <<>>]
  /\ selectedActivityId = [s \in Sessions |-> IF s = "s1" THEN "1" ELSE Null]
  /\ resourceMemory = [s \in Sessions |-> emptyResourceMemory]
  /\ existingReport = [s \in Sessions |-> NoReport]
  /\ loading = [s \in Sessions |-> s # "s1"]
  /\ blur = [s \in Sessions |-> IdleBlur]
  /\ save = [s \in Sessions |-> Idle]
  /\ copy = [s \in Sessions |-> Idle]
  /\ InitApp
  /\ ops = [edit |-> QueueOps, save |-> 0, nav |-> 0, total |-> QueueOps]
  /\ last = [op |-> "init"]
  /\ InitTemplates

\* the clock of the model stops at MaxTime: a blur comes early enough for
\* its timer to run
NextQueue ==
  \/ \E i \in {"1", "2"} :
        now + Debounce <= MaxTime /\ handleManpowerNameBlur("s1", i)
  \/ \E i \in {"1", "2"} :
        now + Debounce <= MaxTime /\ handleManpowerFieldBlur("s1", i)
  \/ Tick
  \/ \E ok \in BOOLEAN : TemplateTimerFire("s1", ok)

\* time passes, and a timer that is due runs
SpecQueue ==
  /\ InitQueue /\ [][NextQueue]_vars
  /\ WF_vars(Tick)
  /\ WF_vars(\E ok \in BOOLEAN : TemplateTimerFire("s1", ok))

QueuedFor(name) ==
  /\ mpSaveTimerRef["s1"].pending
  /\ mpSaveTimerRef["s1"].template.nameKey = normalizeKey(name)

WrittenFor(name) ==
  \E i \in 1..Len(tplLog) :
    /\ tplLog[i].kind = "write"
    /\ tplLog[i].template.nameKey = normalizeKey(name)

\* C30: a template queued for a name is eventually written to the store,
\* also when a save for another name is queued before its timer fires.
QueuedTemplateIsWritten ==
  \A name \in {Raj, Tam} : QueuedFor(name) ~> WrittenFor(name)

====
